---- MODULE Spec2Model ----
(***************************************************************************)
(* Verification model of the quix QUIC core.                               *)
(*                                                                         *)
(*   SpecCC : qcongestion CongestionController (loss detection, timer,     *)
(*            PTO), src/qcongestion/src/congestion.rs                      *)
(*   SpecTx : qrecovery Transmitter and Space (reliable frame queue and    *)
(*            sent-packet records), src/qrecovery/src/space/tx.rs and      *)
(*            src/qrecovery/src/space.rs                                   *)
(*   SpecSnd: qrecovery Outgoing, the sending half of a stream,            *)
(*            src/qrecovery/src/send/outgoing.rs                           *)
(*   SpecObs: what an acknowledgement tells the receive side and the       *)
(*            stream, through the Transmitter and through the Space        *)
(*   SpecRd : the packets assembled by Space.read                          *)
(*   SpecPn : packet numbers handed to concurrent send tasks               *)
(*   SpecBuf: qrecovery SendBuf, the colour map of the written bytes,      *)
(*            src/qrecovery/src/sndbuf.rs                                  *)
(*   SpecFr : qbase FrameReader, src/qbase/src/frame.rs                    *)
(*   SpecAdm: the frame sets of the packet types, src/qbase/src/frame.rs   *)
(*   SpecHdr: the Retry long header, src/qbase/src/packet/header/long.rs   *)
(*   SpecRv : qrecovery Reader, the reading half of a stream,              *)
(*            src/qrecovery/src/recv/reader.rs                             *)
(*   SpecRt : the controller over runs long enough for the RTT estimate    *)
(*            to change between arming and expiry of the loss timer        *)
(*   SpecLa : the controller and the Transmitter under ACK frames that     *)
(*            name any packet number                                       *)
(*   SpecScid, SpecDcid: the source and destination connection ID          *)
(*            registries, src/quix/src/quic/cid_registry.rs                *)
(*   SpecZr : the upgrade of the 0-RTT data space,                         *)
(*            src/qrecovery/src/space/zero_rtt_data.rs                     *)
(*                                                                         *)
(* Time is counted in milliseconds; an Instant is an integer.              *)
(* Option<T> is a sequence of length 0 (None) or 1 (Some).                 *)
(***************************************************************************)
EXTENDS Integers, Sequences, FiniteSets, TLC

VARIABLES cc, last, clock, ghost, tx, sp, txlast, snd, env,
          sendbuf, reader, recv, lastcall, scids, dcids, zspace

vars == <<cc, last, clock, ghost, tx, sp, txlast, snd, env,
          sendbuf, reader, recv, lastcall, scids, dcids, zspace>>
ccvars == <<cc, last, clock, ghost>>
txvars == <<tx, sp, txlast>>
sndvars == <<snd, env>>
\* the controller, the spaces and the stream sender
basevars == <<cc, last, clock, ghost, tx, sp, txlast, snd, env>>
\* the connection ID registries and the 0-RTT data space
regvars == <<scids, dcids, zspace>>
\* the send buffer, the frame reader, the stream receiver and the last call
extvars == <<sendbuf, reader, recv, lastcall, regvars>>

\* the objects that were not built
RegIdle ==
    /\ scids = << >>
    /\ dcids = << >>
    /\ zspace = << >>

ExtIdle ==
    /\ sendbuf = << >>
    /\ reader = << >>
    /\ recv = << >>
    /\ lastcall = << >>
    /\ RegIdle

\* ------------------------------------------------------------------ bounds
\* largest packet number an input may carry
MaxPn == 3
\* number of on_packet_sent calls in one run of SpecCC, SpecHS, SpecLT
MaxSends == 3
MaxSendsHS == 2
MaxSendsLT == 4
\* last instant of the clock, in SpecCC, in SpecHS and in SpecLT
MaxTime == 1
MaxTimeHS == 2
MaxTimeLT == 1
\* no timer expiry is delivered once pto_count has reached this value, in
\* SpecCC and SpecHS, and in SpecLT
MaxPto == 2
MaxPtoLT == 1

\* the sends, the instants and the timer expiries of SpecRt
MaxSendsRt == 3
MaxTimeRt == 3
MaxPtoRt == 1

\* ---------------------------------------------------------------- helpers
None == << >>
Some(x) == <<x>>
IsSome(o) == o # << >>
Unwrap(o) == o[1]

Min2(a, b) == IF a <= b THEN a ELSE b
Max2(a, b) == IF a >= b THEN a ELSE b
Abs(a) == IF a >= 0 THEN a ELSE -a
SetMax(S) == CHOOSE x \in S : \A y \in S : y <= x

\* VecDeque::remove(idx): the deque without its element at position i (1-based)
RemoveAt(q, i) == [j \in 1..(Len(q) - 1) |-> IF j < i THEN q[j] ELSE q[j + 1]]

Pns(q) == {q[i].pkt_num : i \in 1..Len(q)}

\* ----------------------------------------------------------- congestion.rs
Initial == 0
Handshake == 1
Data == 2
Epochs == {Initial, Handshake, Data}

K_GRANULARITY == 1
K_PACKET_THRESHOLD == 3

\* Rtt (qcongestion/src/rtt.rs is not part of the sources): spec 4.5 and 3
InitialRtt == 1

RttDefault ==
    [latest_rtt |-> 0, smoothed_rtt |-> InitialRtt, rttvar |-> InitialRtt \div 2,
     min_rtt |-> 0, first_rtt_sample |-> TRUE]

\* Rtt::update(latest_rtt, ack_delay, handshake_confirmed) with ack_delay = 0
RttUpdate(rtt, sample) ==
    IF rtt.first_rtt_sample
    THEN [latest_rtt |-> sample, smoothed_rtt |-> sample, rttvar |-> sample \div 2,
          min_rtt |-> sample, first_rtt_sample |-> FALSE]
    ELSE [latest_rtt |-> sample,
          smoothed_rtt |-> (7 * rtt.smoothed_rtt + sample) \div 8,
          rttvar |-> (3 * rtt.rttvar + Abs(rtt.smoothed_rtt - sample)) \div 4,
          min_rtt |-> Min2(rtt.min_rtt, sample),
          first_rtt_sample |-> FALSE]

\* Rtt::loss_delay(): max(9/8 * max(smoothed_rtt, latest_rtt), K_GRANULARITY)
LossDelay(rtt) ==
    Max2((9 * Max2(rtt.smoothed_rtt, rtt.latest_rtt)) \div 8, K_GRANULARITY)

\* CongestionController::new
NewController ==
    [loss_detection_timer |-> None,
     pto_count |-> 0,
     time_of_last_ack_eliciting_packet |-> [e \in Epochs |-> None],
     largest_acked_packet |-> [e \in Epochs |-> None],
     loss_time |-> [e \in Epochs |-> None],
     sent_packets |-> [e \in Epochs |-> << >>],
     anti_amplification |-> FALSE,
     handshake_confirmed |-> FALSE,
     has_handshake_keys |-> FALSE,
     rtt |-> RttDefault,
     \* "" while no assertion or unwrap has failed, else the one that failed
     panic |-> "",
     \* the calls the current operation has made on its collaborators
     on_packet_acked_calls |-> {},
     on_congestion_event_calls |-> {},
     may_loss_pkt_calls |-> {},
     rearmed |-> FALSE]

\* a fresh call: the call log of the previous operation is dropped
Enter(self) ==
    [self EXCEPT !.on_packet_acked_calls = {}, !.on_congestion_event_calls = {},
                 !.may_loss_pkt_calls = {}, !.rearmed = FALSE]

peer_completed_address_validation(self) ==
    self.has_handshake_keys \/ self.handshake_confirmed

no_ack_eliciting_in_flight(self) ==
    \A e \in Epochs : ~IsSome(self.time_of_last_ack_eliciting_packet[e])

\* the comparison of get_loss_time_and_space turned round
LatestLossTimeAndSpace(self) ==
    LET step(acc, e) ==
            IF IsSome(self.loss_time[e])
               /\ (~IsSome(acc[1]) \/ Unwrap(self.loss_time[e]) > Unwrap(acc[1]))
            THEN <<self.loss_time[e], e>>
            ELSE acc
    IN  step(step(<<self.loss_time[Initial], Initial>>, Handshake), Data)

\* get_loss_time_and_space: <<time, space>>
get_loss_time_and_space(self) ==
    LET step(acc, e) ==
            IF IsSome(self.loss_time[e])
               /\ (~IsSome(acc[1]) \/ Unwrap(self.loss_time[e]) < Unwrap(acc[1]))
            THEN <<self.loss_time[e], e>>
            ELSE acc
    IN  step(step(<<self.loss_time[Initial], Initial>>, Handshake), Data)

\* get_pto_time_and_space: <<timeout, space>>; max_ack_delay is 0 (line 105)
get_pto_time_and_space(self, now) ==
    LET duration == self.rtt.smoothed_rtt + Max2(K_GRANULARITY, self.rtt.rttvar * 4)
        step(acc, e) ==
            \* acc = <<pto_timeout, pto_space, returned>>
            IF acc[3] THEN acc
            ELSE IF no_ack_eliciting_in_flight(self) THEN acc
            ELSE IF e = Data /\ ~self.handshake_confirmed THEN <<acc[1], acc[2], TRUE>>
            ELSE IF ~IsSome(self.time_of_last_ack_eliciting_packet[e]) THEN acc
            ELSE LET new_time == Unwrap(self.time_of_last_ack_eliciting_packet[e]) + duration
                 IN  IF ~IsSome(acc[1]) \/ new_time < Unwrap(acc[1])
                     THEN <<Some(new_time), e, FALSE>>
                     ELSE acc
        r == step(step(step(<<None, Initial, FALSE>>, Initial), Handshake), Data)
    IN  IF no_ack_eliciting_in_flight(self)
        THEN <<Some(now + duration), IF self.has_handshake_keys THEN Handshake ELSE Initial>>
        ELSE <<r[1], r[2]>>

set_lost_detection_timer(self, now) ==
    LET earliest_loss_time == get_loss_time_and_space(self)[1]
        t == IF IsSome(earliest_loss_time) THEN earliest_loss_time
             ELSE IF self.anti_amplification THEN None
             ELSE IF no_ack_eliciting_in_flight(self)
                     /\ peer_completed_address_validation(self) THEN None
             ELSE get_pto_time_and_space(self, now)[1]
    IN  [self EXCEPT !.loss_detection_timer = t, !.rearmed = TRUE]

\* the packet threshold compared one packet too late
IsLostOffByOne(pkt, largest_acked, lost_send_time) ==
    \/ pkt.time_sent <= lost_send_time
    \/ largest_acked > pkt.pkt_num + K_PACKET_THRESHOLD

\* the loss condition of detect_and_remove_lost_packets for a packet that is
\* not above largest_acked
IsLost(pkt, largest_acked, lost_send_time) ==
    \/ pkt.time_sent <= lost_send_time
    \/ largest_acked >= pkt.pkt_num + K_PACKET_THRESHOLD

\* the while loop of detect_and_remove_lost_packets, from index i (1-based):
\* [q: the deque, lost: the removed packets in order, lt: loss_time of the space]
RECURSIVE DetectLoop(_, _, _, _, _, _, _)
DetectLoop(q, i, lost, lt, largest_acked, lost_send_time, loss_delay) ==
    IF i = Len(q) + 1 THEN [q |-> q, lost |-> lost, lt |-> lt]
    ELSE IF q[i].pkt_num > largest_acked
    THEN DetectLoop(q, i + 1, lost, lt, largest_acked, lost_send_time, loss_delay)
    ELSE IF IsLost(q[i], largest_acked, lost_send_time)
    THEN DetectLoop(RemoveAt(q, i), i, Append(lost, q[i]), lt,
                    largest_acked, lost_send_time, loss_delay)
    ELSE LET loss_time == q[i].time_sent + loss_delay
         IN  DetectLoop(q, i + 1, lost,
                        IF IsSome(lt) THEN Some(Min2(Unwrap(lt), loss_time))
                        ELSE Some(loss_time),
                        largest_acked, lost_send_time, loss_delay)

\* detect_and_remove_lost_packets: [self, lost]
detect_and_remove_lost_packets(self, pn_space, now) ==
    IF ~IsSome(self.largest_acked_packet[pn_space])
    THEN [self |-> [self EXCEPT !.panic = "largest_acked_packet is none"], lost |-> << >>]
    ELSE LET loss_delay == LossDelay(self.rtt)
             r == DetectLoop(self.sent_packets[pn_space], 1, << >>, None,
                             Unwrap(self.largest_acked_packet[pn_space]),
                             now - loss_delay, loss_delay)
         IN  [self |-> [self EXCEPT !.sent_packets[pn_space] = r.q,
                                    !.loss_time[pn_space] = r.lt],
              lost |-> r.lost]

\* on_packets_lost: only the congestion algorithm is told
on_packets_lost(self, packets, pn_space, now) ==
    [self EXCEPT !.on_congestion_event_calls =
                     @ \cup {<<pn_space, packets[i].pkt_num>> : i \in 1..Len(packets)}]

\* binary_search_by_key(&packet_number, |p| p.pkt_num): 0 when not found
RECURSIVE BinarySearch(_, _, _, _)
BinarySearch(q, key, lo, hi) ==
    IF lo > hi THEN 0
    ELSE LET mid == (lo + hi) \div 2
         IN  IF q[mid].pkt_num = key THEN mid
             ELSE IF q[mid].pkt_num < key THEN BinarySearch(q, key, mid + 1, hi)
             ELSE BinarySearch(q, key, lo, mid - 1)

\* on_packet_acked: [self, acked] with acked an Option of the packet's record
on_packet_acked(self, packet_number, pn_space, now) ==
    LET q == self.sent_packets[pn_space]
        idx == BinarySearch(q, packet_number, 1, Len(q))
    IN  IF idx = 0 THEN [self |-> self, acked |-> None]
        ELSE
        LET s1 == [self EXCEPT !.sent_packets[pn_space] = RemoveAt(q, idx)]
            d == detect_and_remove_lost_packets(s1, pn_space, now)
            s2 == IF Len(d.lost) > 0 THEN on_packets_lost(d.self, d.lost, pn_space, now)
                  ELSE d.self
            s3 == [s2 EXCEPT !.on_packet_acked_calls = @ \cup {<<pn_space, packet_number>>}]
            s4 == IF peer_completed_address_validation(s3)
                  THEN [s3 EXCEPT !.pto_count = 0] ELSE s3
        IN  IF d.self.panic # "" THEN [self |-> d.self, acked |-> None]
            ELSE [self |-> set_lost_detection_timer(s4, now), acked |-> Some(q[idx])]

\* AckFrame::iter (qbase/src/frame/ack.rs is not part of the sources): the
\* acknowledged numbers as ranges, largest range first (spec 4.2); on_acked
\* walks each range upwards. An ACK frame is the set of numbers it names.
RECURSIVE AckOrder(_)
AckOrder(F) ==
    IF F = {} THEN << >>
    ELSE LET hi == SetMax(F)
             lo == CHOOSE x \in F : (\A y \in x..hi : y \in F) /\ (x - 1) \notin F
         IN  [i \in 1..(hi - lo + 1) |-> lo + i - 1] \o AckOrder(F \ (lo..hi))

\* the body of the loops of on_acked for one pn
on_acked_pn(self, space, largest_acked, pn, now) ==
    IF pn = largest_acked
    THEN IF IsSome(self.largest_acked_packet[space])
            /\ ~(pn > Unwrap(self.largest_acked_packet[space]))
         THEN [self EXCEPT !.panic = "pn > largest_packet_acked"]
         ELSE LET s1 == [self EXCEPT !.largest_acked_packet[space] = Some(pn)]
                  r == on_packet_acked(s1, pn, space, now)
              IN  IF r.self.panic # "" THEN r.self
                  ELSE IF ~IsSome(r.acked)
                  THEN [r.self EXCEPT !.panic = "unwrap on none"]
                  ELSE [r.self EXCEPT !.rtt = RttUpdate(@, now - Unwrap(r.acked).time_sent)]
    ELSE on_packet_acked(self, pn, space, now).self

RECURSIVE on_acked_loop(_, _, _, _, _)
on_acked_loop(self, space, largest_acked, pns, now) ==
    IF pns = << >> \/ self.panic # "" THEN self
    ELSE on_acked_loop(on_acked_pn(self, space, largest_acked, Head(pns), now),
                       space, largest_acked, Tail(pns), now)

on_acked(self, space, frame, now) ==
    on_acked_loop(self, space, SetMax(frame), AckOrder(frame), now)

\* the assertion left out
SendAssertAbsent(self, packet_number, pn_space) == FALSE

\* the assertion accepting a repeated packet number
SendAssertNotStrict(self, packet_number, pn_space) ==
    LET q == self.sent_packets[pn_space]
    IN  Len(q) > 0 /\ ~(packet_number >= q[Len(q)].pkt_num)

\* the strict-increase assertion of on_packet_sent fails
SendAssertFails(self, packet_number, pn_space) ==
    LET q == self.sent_packets[pn_space]
    IN  Len(q) > 0 /\ ~(packet_number > q[Len(q)].pkt_num)

on_packet_sent(self, packet_number, pn_space, ack_eliciting, in_flight, now) ==
    LET sent == [pkt_num |-> packet_number, time_sent |-> now,
                 ack_eliciting |-> ack_eliciting, in_flight |-> in_flight]
        s1 == IF in_flight /\ ack_eliciting
              THEN [self EXCEPT !.time_of_last_ack_eliciting_packet[pn_space] = Some(now)]
              ELSE self
        s2 == IF in_flight THEN set_lost_detection_timer(s1, now) ELSE s1
    IN  IF SendAssertFails(s2, packet_number, pn_space)
        THEN [s2 EXCEPT !.panic = "packet_number > last pkt_num"]
        ELSE [s2 EXCEPT !.sent_packets[pn_space] = Append(@, sent)]

on_loss_detection_timeout(self, now) ==
    LET ls == get_loss_time_and_space(self)
    IN  IF IsSome(ls[1])
        THEN LET d == detect_and_remove_lost_packets(self, ls[2], now)
             IN  IF d.self.panic # "" THEN d.self
                 ELSE IF Len(d.lost) = 0
                 THEN [d.self EXCEPT !.panic = "loss_packet is empty"]
                 ELSE set_lost_detection_timer(
                          on_packets_lost(d.self, d.lost, ls[2], now), now)
        ELSE IF no_ack_eliciting_in_flight(self)
                /\ ~peer_completed_address_validation(self)
        THEN [self EXCEPT !.panic = "peer_completed_address_validation"]
        ELSE set_lost_detection_timer([self EXCEPT !.pto_count = @ + 1], now)

on_datagram_recv(self, now) ==
    IF self.anti_amplification
    THEN LET s1 == set_lost_detection_timer(self, now)
         IN  IF IsSome(s1.loss_detection_timer) /\ Unwrap(s1.loss_detection_timer) < now
             THEN on_loss_detection_timeout(s1, now)
             ELSE s1
    ELSE self

\* ---------------------------------------------------- controller: actions
\* the last call made on the controller and its arguments
NoCall == [op |-> "new", space |-> Initial, frame |-> {}]

\* what the run has done so far: the number of on_packet_sent calls and, per
\* space, the packet numbers on_packet_sent has recorded
GhostInit == [nsends |-> 0, sent_ever |-> [e \in Epochs |-> {}]]

\* the call log kept (rec) or dropped once the call has returned
Logged(self, rec) ==
    IF rec THEN self
    ELSE [self EXCEPT !.on_packet_acked_calls = {}, !.on_congestion_event_calls = {},
                      !.may_loss_pkt_calls = {}]
LastCall(call, rec) == IF rec THEN call ELSE NoCall

InitCC ==
    /\ cc = NewController
    /\ last = NoCall
    /\ clock = 0
    /\ ghost = GhostInit
    /\ tx = << >>
    /\ sp = << >>
    /\ txlast = << >>
    /\ snd = << >>
    /\ env = << >>
    /\ ExtIdle

OnPacketSent(pn, e, ae, inf, rec) ==
    /\ cc.panic = ""
    /\ cc' = Logged(on_packet_sent(Enter(cc), pn, e, ae, inf, clock), rec)
    /\ last' = LastCall([NoCall EXCEPT !.op = "on_packet_sent", !.space = e], rec)
    /\ ghost' = [ghost EXCEPT !.nsends = @ + 1,
                              !.sent_ever[e] = IF cc'.panic = "" THEN @ \cup {pn} ELSE @]
    /\ UNCHANGED <<extvars, clock, txvars, sndvars>>

\* the peer acknowledges packet numbers that were sent to it
OnAcked(e, frame, rec) ==
    /\ cc.panic = ""
    /\ frame # {}
    /\ cc' = Logged(on_acked(Enter(cc), e, frame, clock), rec)
    /\ last' = LastCall([NoCall EXCEPT !.op = "on_acked", !.space = e, !.frame = frame], rec)
    /\ UNCHANGED <<extvars, clock, ghost, txvars, sndvars>>

\* the timer driver: the armed timer has expired
OnLossDetectionTimeout(rec, n) ==
    /\ cc.panic = ""
    /\ IsSome(cc.loss_detection_timer)
    /\ Unwrap(cc.loss_detection_timer) <= clock
    /\ cc.pto_count < n
    /\ cc' = Logged(on_loss_detection_timeout(Enter(cc), clock), rec)
    /\ last' = LastCall([NoCall EXCEPT !.op = "on_loss_detection_timeout"], rec)
    /\ UNCHANGED <<extvars, clock, ghost, txvars, sndvars>>

OnDatagramRecv(rec) ==
    /\ cc.panic = ""
    /\ cc' = Logged(on_datagram_recv(Enter(cc), clock), rec)
    /\ last' = LastCall([NoCall EXCEPT !.op = "on_datagram_recv"], rec)
    /\ UNCHANGED <<extvars, clock, ghost, txvars, sndvars>>

\* the TLS driver raises has_handshake_keys / handshake_confirmed (spec 6)
SetHasHandshakeKeys ==
    /\ cc.panic = ""
    /\ ~cc.has_handshake_keys
    /\ cc' = [cc EXCEPT !.has_handshake_keys = TRUE, !.rearmed = FALSE]
    /\ UNCHANGED <<extvars, last, clock, ghost, txvars, sndvars>>

SetHandshakeConfirmed ==
    /\ cc.panic = ""
    /\ cc.has_handshake_keys
    /\ ~cc.handshake_confirmed
    /\ cc' = [cc EXCEPT !.handshake_confirmed = TRUE, !.rearmed = FALSE]
    /\ UNCHANGED <<extvars, last, clock, ghost, txvars, sndvars>>

\* the anti-amplification limit starts or stops applying (spec 4.6)
SetAntiAmplification(b) ==
    /\ cc.panic = ""
    /\ cc.anti_amplification # b
    /\ cc' = [cc EXCEPT !.anti_amplification = b, !.rearmed = FALSE]
    /\ UNCHANGED <<extvars, last, clock, ghost, txvars, sndvars>>

\* time passes, up to the instant n
Tick(n) ==
    /\ clock < n
    /\ clock' = clock + 1
    /\ UNCHANGED <<extvars, cc, last, ghost, txvars, sndvars>>

\* the sender's and the peer's calls in the spaces E: at most n packets, with
\* packet numbers from P and <<ack_eliciting, in_flight>> from K
Traffic(E, P, K, n, rec) ==
    \/ \E pn \in P, e \in E, k \in K :
           /\ ghost.nsends < n
           /\ OnPacketSent(pn, e, k[1], k[2], rec)
    \/ \E e \in E : \E frame \in SUBSET ghost.sent_ever[e] : OnAcked(e, frame, rec)

\* the same with a sender that numbers the packets of each space 0, 1, 2, ...
TrafficInOrder(E, K, n, rec) ==
    \/ \E e \in E, k \in K :
           /\ ghost.nsends < n
           /\ OnPacketSent(Cardinality(ghost.sent_ever[e]), e, k[1], k[2], rec)
    \/ \E e \in E : \E frame \in SUBSET ghost.sent_ever[e] : OnAcked(e, frame, rec)

\* the same with a sender that moves from Initial to Handshake to Data and
\* never returns to an earlier space, and a peer whose ACK frames hold one range
TrafficByStage(E, K, n, rec) ==
    \/ \E e \in E, k \in K :
           /\ ghost.nsends < n
           /\ \A later \in E : later > e => ghost.sent_ever[later] = {}
           /\ OnPacketSent(Cardinality(ghost.sent_ever[e]), e, k[1], k[2], rec)
    \/ \E e \in E : \E lo \in ghost.sent_ever[e], hi \in ghost.sent_ever[e] :
           OnAcked(e, lo..hi, rec)

AckEliciting == {<<TRUE, TRUE>>}
AnyPacket == {<<TRUE, TRUE>>, <<FALSE, TRUE>>, <<FALSE, FALSE>>}

\* one packet number space, the flags as the constructor leaves them
NextCC ==
    \/ Traffic({Initial}, 0..MaxPn, AckEliciting, MaxSends, TRUE)
    \/ OnLossDetectionTimeout(TRUE, MaxPto)
    \/ Tick(MaxTime)

\* the three spaces while the handshake progresses
NextHS ==
    \/ TrafficInOrder(Epochs, AnyPacket, MaxSendsHS, TRUE)
    \/ OnDatagramRecv(TRUE)
    \/ SetHasHandshakeKeys
    \/ SetHandshakeConfirmed
    \/ \E b \in BOOLEAN : SetAntiAmplification(b)
    \/ OnLossDetectionTimeout(TRUE, MaxPto)
    \/ Tick(MaxTimeHS)

\* the two handshake spaces of a server under the anti-amplification limit
NextLT ==
    \/ TrafficByStage({Initial, Handshake}, AckEliciting, MaxSendsLT, FALSE)
    \/ OnDatagramRecv(FALSE)
    \/ \E b \in BOOLEAN : SetAntiAmplification(b)
    \/ OnLossDetectionTimeout(FALSE, MaxPtoLT)
    \/ Tick(MaxTimeLT)

\* ------------------------------------------------------ controller: claims
Validated == cc.has_handshake_keys \/ cc.handshake_confirmed
Tracked(e) == Pns(cc.sent_packets[e])

\* C1: detect_and_remove_lost_packets(S, now) removes and returns exactly the
\* packets with pkt_num <= largest_acked[S] that were sent at or before
\* now - loss_delay or are at least K_PACKET_THRESHOLD below largest_acked[S];
\* all other packets stay in the deque in their order, and the other spaces
\* are untouched.
C1_DetectExact ==
    \A e \in Epochs :
        IsSome(cc.largest_acked_packet[e]) =>
            \A now \in clock..(clock + MaxTime) :
                LET q == cc.sent_packets[e]
                    la == Unwrap(cc.largest_acked_packet[e])
                    Lost(p) == /\ p.pkt_num <= la
                               /\ \/ p.time_sent <= now - LossDelay(cc.rtt)
                                  \/ la - p.pkt_num >= 3
                    Kept(p) == ~Lost(p)
                    r == detect_and_remove_lost_packets(cc, e, now)
                IN  /\ r.lost = SelectSeq(q, Lost)
                    /\ r.self.sent_packets[e] = SelectSeq(q, Kept)
                    /\ \A o \in Epochs \ {e} : r.self.sent_packets[o] = cc.sent_packets[o]

\* an acknowledgement after which loss detection has removed a packet and
\* kept another one below largest_acked
C1_Witness ==
    /\ last.op = "on_acked"
    /\ cc.panic = ""
    /\ cc.on_congestion_event_calls # {}
    /\ \E i \in 1..Len(cc.sent_packets[Initial]) :
           cc.sent_packets[Initial][i].pkt_num < Unwrap(cc.largest_acked_packet[Initial])

\* C2: while on_acked processes an ACK frame, no packet number the frame
\* names is reported to Algorithm.on_congestion_event.
C2_AckedNeverLost ==
    last.op = "on_acked" =>
        \A pn \in last.frame : <<last.space, pn>> \notin cc.on_congestion_event_calls

\* C3: every packet reported to Algorithm.on_congestion_event is also reported
\* to ObserveLoss.may_loss_pkt with its space and packet number.
C3_LossObserved == cc.on_congestion_event_calls \subseteq cc.may_loss_pkt_calls

\* C5: in every space the pkt_num values of sent_packets strictly increase
\* from front to back.
C5_SentIncreasing ==
    \A e \in Epochs :
        \A i, j \in 1..Len(cc.sent_packets[e]) :
            i < j => cc.sent_packets[e][i].pkt_num < cc.sent_packets[e][j].pkt_num

\* a deque of two packets left behind by an acknowledgement of a third one
C5_Witness ==
    /\ last.op = "on_acked"
    /\ Len(cc.sent_packets[Initial]) = 2
    /\ cc.on_packet_acked_calls # {}

\* C6 as stated: on_packet_sent fails and adds no record whenever pn is not
\* greater than a packet number sent before in the space, tracked or not.
C6_NeverReused ==
    [][\A pn \in 0..MaxPn, e \in Epochs :
           (/\ ghost'.nsends = ghost.nsends + 1
            /\ last'.space = e
            /\ OnPacketSent(pn, e, TRUE, TRUE, TRUE)
            /\ \E p \in ghost.sent_ever[e] : pn <= p)
           => (cc'.panic # "" /\ cc'.sent_packets = cc.sent_packets)]_vars

\* C6 as amended: on_packet_sent fails and adds no record exactly when the
\* deque of the space is not empty and pn is not greater than the number of
\* its last packet; otherwise the record is appended.
C6_AssertAgainstBack ==
    [][\A pn \in 0..MaxPn, e \in Epochs :
           (/\ ghost'.nsends = ghost.nsends + 1
            /\ last'.space = e
            /\ OnPacketSent(pn, e, TRUE, TRUE, TRUE)) =>
               LET q == cc.sent_packets[e]
               IN  IF Len(q) > 0 /\ pn <= q[Len(q)].pkt_num
                   THEN cc'.panic # "" /\ cc'.sent_packets = cc.sent_packets
                   ELSE /\ cc'.panic = ""
                        /\ Len(cc'.sent_packets[e]) = Len(q) + 1
                        /\ cc'.sent_packets[e][Len(q) + 1].pkt_num = pn
                        /\ \A i \in 1..Len(q) : cc'.sent_packets[e][i] = q[i]]_vars

\* a packet number below one used before has been recorded without failure
\* once the deque was empty
C6_Witness ==
    /\ last.op = "on_packet_sent"
    /\ cc.panic = ""
    /\ Len(cc.sent_packets[Initial]) = 1
    /\ cc.sent_packets[Initial][1].pkt_num < SetMax(ghost.sent_ever[Initial])

\* C7: an ACK frame whose largest is below the recorded largest_acked_packet
\* of the space makes on_acked return without failing and leaves
\* largest_acked_packet, sent_packets, the RTT state and pto_count unchanged.
C7_OlderAckDropped ==
    [][\A e \in Epochs : \A frame \in (SUBSET ghost.sent_ever[e]) \ {{}} :
           (/\ OnAcked(e, frame, TRUE)
            /\ IsSome(cc.largest_acked_packet[e])
            /\ SetMax(frame) < Unwrap(cc.largest_acked_packet[e]))
           => /\ cc'.panic = ""
              /\ cc'.largest_acked_packet = cc.largest_acked_packet
              /\ cc'.sent_packets = cc.sent_packets
              /\ cc'.rtt = cc.rtt
              /\ cc'.pto_count = cc.pto_count]_vars

\* C8: after re-arming with no loss_time pending, no anti-amplification, the
\* peer's address validated and no ack-eliciting packet tracked in any space,
\* loss_detection_timer is None.
C8_DisarmedWhenIdle ==
    (/\ cc.rearmed
     /\ \A e \in Epochs : ~IsSome(cc.loss_time[e])
     /\ ~cc.anti_amplification
     /\ Validated
     /\ \A e \in Epochs : \A i \in 1..Len(cc.sent_packets[e]) :
            ~cc.sent_packets[e][i].ack_eliciting)
    => cc.loss_detection_timer = None

\* C9: after an operation that re-armed the timer, loss_detection_timer is the
\* least loss_time of the three spaces if any is set, and None if none is set
\* and anti_amplification holds.
C9_TimerFollowsLossTime ==
    cc.rearmed =>
        LET times == {Unwrap(cc.loss_time[e]) : e \in {x \in Epochs : IsSome(cc.loss_time[x])}}
        IN  /\ times # {} =>
                /\ IsSome(cc.loss_detection_timer)
                /\ Unwrap(cc.loss_detection_timer) \in times
                /\ \A t \in times : Unwrap(cc.loss_detection_timer) <= t
            /\ (times = {} /\ cc.anti_amplification) => cc.loss_detection_timer = None

\* the timer re-armed while two spaces hold different loss times
C9_Witness ==
    /\ cc.rearmed
    /\ IsSome(cc.loss_time[Initial])
    /\ IsSome(cc.loss_time[Handshake])
    /\ cc.loss_time[Initial] # cc.loss_time[Handshake]

\* C10: pto_count becomes 0 when on_acked acknowledges a tracked packet while
\* the peer's address is validated, grows by 1 on a timer expiry with no
\* loss_time pending, and is unchanged by every other step.
C10_PtoCount ==
    [][/\ \A e \in Epochs : \A frame \in (SUBSET ghost.sent_ever[e]) \ {{}} :
              OnAcked(e, frame, TRUE) =>
                  cc'.pto_count = IF Validated /\ frame \cap Tracked(e) # {}
                                  THEN 0 ELSE cc.pto_count
       /\ OnLossDetectionTimeout(TRUE, MaxPto) =>
              cc'.pto_count = IF \A e \in Epochs : ~IsSome(cc.loss_time[e])
                              THEN cc.pto_count + 1 ELSE cc.pto_count
       /\ (\/ \E pn \in 0..MaxPn, e \in Epochs, k \in AnyPacket :
                  OnPacketSent(pn, e, k[1], k[2], TRUE)
           \/ SetHasHandshakeKeys \/ SetHandshakeConfirmed
           \/ \E b \in BOOLEAN : SetAntiAmplification(b)
           \/ Tick(MaxTimeHS))
          => cc'.pto_count = cc.pto_count]_vars

SpecCC == InitCC /\ [][NextCC]_vars
SpecHS == InitCC /\ [][NextHS]_vars
SpecLT == InitCC /\ [][NextLT]_vars

\* two spaces whose acknowledgements feed the same RTT estimate
NextRt ==
    \/ TrafficInOrder({Initial, Handshake}, AckEliciting, MaxSendsRt, TRUE)
    \/ OnDatagramRecv(TRUE)
    \/ OnLossDetectionTimeout(TRUE, MaxPtoRt)
    \/ Tick(MaxTimeRt)

SpecRt == InitCC /\ [][NextRt]_vars

\* C33: on_acked never fails the assertion that largest_acked_packet of the
\* space is set, also for the first ACK frame of a space whose first range
\* names more than one packet.
C33_LargestAckedSet ==
    last.op = "on_acked" => cc.panic # "largest_acked_packet is none"

\* C34: a loss detection timeout that runs with a loss_time set finds at
\* least one lost packet.
C34_TimeoutFindsLoss == cc.panic # "loss_packet is empty"

\* ------------------------------------------------------ stream: bounds
\* largest flow-control limit of the stream
MaxStreamData == 2
\* largest buffer handed to try_send
MaxCap == 3

\* send::new(initial_max_stream_data)
InitialMaxStreamData == 1

\* ------------------------------------------------------- send/outgoing.rs
\* Sender and its states (send/sender.rs is not part of the sources), spec 3
\* and 4.8: the send buffer colours every byte written Pending "P", InFlight
\* "F", Acked "A" or Lost "L"; max_data is the flow-control limit; shutdown
\* is set once the writer has ended the stream.
SendStates == {"Ready", "Sending", "DataSent", "DataRecvd", "ResetSent", "ResetRecvd"}

\* Sender::with_buf_size
SenderWithBufSize(initial_max_stream_data) ==
    [kind |-> "Ready", colors |-> << >>, max_data |-> initial_max_stream_data,
     shutdown |-> FALSE, panic |-> "", op |-> "new", was |-> "Ready",
     ret |-> None, put |-> None]

\* Sender::take leaves a placeholder in the mutex until replace is called
Taken(s) == [s EXCEPT !.kind = "Taken"]

\* the operation op starts on the sender in the state was: nothing returned
\* or written yet
Call(s, op) == [s EXCEPT !.op = op, !.was = s.kind, !.ret = None, !.put = None]

\* SendBuf::write: up to max_data - wrote bytes are appended as Pending
SendBufWrite(s, n) ==
    LET k == Min2(n, s.max_data - Len(s.colors)) IN
    [s EXCEPT !.colors = @ \o [i \in 1..Max2(k, 0) |-> "P"]]

\* SendingSender::update_window: the limit only grows
SendBufUpdateWindow(s, max_data_size) ==
    [s EXCEPT !.max_data = Max2(@, max_data_size)]

\* the first byte (1-based) of the oldest Lost run, else of the oldest
\* Pending run, else 0
PickFrom(colors) ==
    LET first(c) == IF \E i \in 1..Len(colors) : colors[i] = c
                    THEN CHOOSE i \in 1..Len(colors) :
                             colors[i] = c /\ \A j \in 1..(i - 1) : colors[j] # c
                    ELSE 0
    IN  IF first("L") # 0 THEN first("L") ELSE first("P")

\* the length of the run of one colour that starts at byte from
RunLen(colors, from) ==
    LET ends == {i \in from..Len(colors) :
                    \A j \in from..i : colors[j] = colors[from]}
    IN  SetMax(ends) - from + 1

\* StreamFrame::estimate_max_capacity: the room left after a header of one byte
estimate_max_capacity(capacity) == capacity - 1

\* pick_up and write of Outgoing::try_send: the oldest run to send is cut to
\* the room of the buffer, coloured InFlight and written as a STREAM frame
PickUpAndWrite(s, capacity) ==
    LET from == PickFrom(s.colors)
        budget == estimate_max_capacity(capacity)
    IN  IF from = 0 \/ budget <= 0 THEN s
        ELSE LET len == Min2(RunLen(s.colors, from), budget)
                 frame == [offset |-> from - 1, len |-> len,
                           eos |-> s.kind = "DataSent" /\ from - 1 + len = Len(s.colors)]
             IN  [s EXCEPT !.colors = [i \in 1..Len(s.colors) |->
                                          IF i >= from /\ i < from + len THEN "F"
                                          ELSE s.colors[i]],
                           !.ret = Some(frame), !.put = Some(frame)]

\* SendBuf::ack of the bytes lo..hi-1
SendBufAck(s, lo, hi) ==
    [s EXCEPT !.colors = [i \in 1..Len(s.colors) |->
                             IF i > lo /\ i <= hi THEN "A" ELSE s.colors[i]]]

\* may_loss of the bytes lo..hi-1: InFlight becomes Lost
SendBufMayLoss(s, lo, hi) ==
    [s EXCEPT !.colors = [i \in 1..Len(s.colors) |->
                             IF i > lo /\ i <= hi /\ s.colors[i] = "F" THEN "L"
                             ELSE s.colors[i]]]

\* DataSentSender::is_all_recvd
is_all_recvd(s) == \A i \in 1..Len(s.colors) : s.colors[i] = "A"

\* the states stop discards the buffer
Discard(s) == [s EXCEPT !.colors = << >>]

\* Writer::cancel (send/writer.rs is not part of the sources), spec 5: the
\* application resets a stream that has not sent all its data
cancel(self) == [Discard(Call(self, "cancel")) EXCEPT !.kind = "ResetSent"]

\* Outgoing::update_window
update_window(self, max_data_size) ==
    LET s == Call(self, "update_window") IN
    IF s.kind = "Sending" THEN SendBufUpdateWindow(s, max_data_size)
    ELSE s

\* try_send that starts to send a stream the writer has already ended
try_send_keeps_sending(self, capacity) ==
    LET s == Call(self, "try_send") IN
    CASE s.kind = "Ready" -> PickUpAndWrite([s EXCEPT !.kind = "Sending"], capacity)
      [] s.kind \in {"Sending", "DataSent"} -> PickUpAndWrite(s, capacity)
      [] OTHER -> s

\* Outgoing::try_send
try_send(self, capacity) ==
    LET s == Call(self, "try_send") IN
    CASE s.kind = "Ready" ->
             IF s.shutdown
             THEN PickUpAndWrite([s EXCEPT !.kind = "DataSent"], capacity)
             ELSE PickUpAndWrite([s EXCEPT !.kind = "Sending"], capacity)
      [] s.kind = "Sending" -> PickUpAndWrite(s, capacity)
      [] s.kind = "DataSent" -> PickUpAndWrite(s, capacity)
      [] OTHER -> s

\* ack_recv that completes the stream as soon as all written bytes are acked
ack_recv_completes_early(self, lo, hi) ==
    LET s == [Call(self, "ack_recv") EXCEPT !.ret = Some(FALSE)] IN
    IF s.kind \in {"Sending", "DataSent"}
    THEN LET a == SendBufAck(s, lo, hi) IN
         IF is_all_recvd(a)
         THEN [Discard(a) EXCEPT !.kind = "DataRecvd", !.ret = Some(TRUE)]
         ELSE a
    ELSE s

\* Outgoing::ack_recv
ack_recv(self, lo, hi) ==
    LET s == [Call(self, "ack_recv") EXCEPT !.ret = Some(FALSE)] IN
    CASE s.kind = "Ready" ->
             [Taken(s) EXCEPT !.panic = "never send data before recv data", !.ret = None]
      [] s.kind = "Sending" -> SendBufAck(s, lo, hi)
      [] s.kind = "DataSent" ->
             LET a == SendBufAck(s, lo, hi) IN
             IF is_all_recvd(a)
             THEN [Discard(a) EXCEPT !.kind = "DataRecvd", !.ret = Some(TRUE)]
             ELSE a
      [] OTHER -> s

\* Outgoing::may_loss
may_loss(self, lo, hi) ==
    LET s == Call(self, "may_loss") IN
    CASE s.kind = "Ready" -> [Taken(s) EXCEPT !.panic = "never send data before recv data"]
      [] s.kind \in {"Sending", "DataSent"} -> SendBufMayLoss(s, lo, hi)
      [] OTHER -> s

\* Outgoing::stop
stop(self) ==
    LET s == Call(self, "stop") IN
    CASE s.kind = "Ready" -> [Taken(s) EXCEPT !.panic = "never send data before recv data"]
      [] s.kind \in {"DataSent", "Sending"} -> [Discard(s) EXCEPT !.kind = "ResetSent"]
      [] OTHER -> s

\* Outgoing::confirm_reset
confirm_reset(self) ==
    LET s == Call(self, "confirm_reset") IN
    IF s.kind \in {"ResetSent", "ResetRecvd"}
    THEN [s EXCEPT !.kind = "ResetRecvd"]
    ELSE [Taken(s) EXCEPT !.panic = "no RESET_STREAM has been sent"]

\* IsCancelled::poll: ret is TRUE for Ready(Ok), FALSE for Ready(Err), None
\* for Pending
poll_is_cancelled(self) ==
    LET s == Call(self, "poll") IN
    CASE s.kind = "ResetSent" -> [s EXCEPT !.ret = Some(TRUE)]
      [] s.kind \in {"ResetRecvd", "DataRecvd"} -> [s EXCEPT !.ret = Some(FALSE)]
      [] OTHER -> s

\* ------------------------------------------------- qrecovery: bounds
\* reliable frames written in one run of SpecTx
MaxFrames == 2
\* packets recorded in one run of SpecTx
MaxPkts == 2
\* largest buffer handed to read
MaxBuf == 3

\* ------------------------------------------------------------ space/tx.rs
\* A reliable frame is its identity 1, 2, ...; BeFrame::encoding_size and
\* max_encoding_size of the frame kinds are not part of the sources: frames
\* of one and of two bytes, and a bound of two bytes for every kind.
encoding_size(frame) == 2 - (frame % 2)
max_encoding_size(frame) == 2

Reliable(frame) == [kind |-> "Reliable", frame |-> frame]
DataRecord(which) == [kind |-> "Data", frame |-> which]
\* AckRecord(largest): the largest packet number of the ACK frame sent
AckRecord(largest) == [kind |-> "Ack", frame |-> largest]

\* ReliableFrame::Stream(StreamCtlFrame::ResetStream(f)): the frame of
\* identity 0 is the RESET_STREAM of the stream
ResetStream == 0

\* the data streams of the space (streams.rs is not part of the sources): one
\* stream and its Outgoing
NewStreams == [outgoing |-> SenderWithBufSize(InitialMaxStreamData)]

\* the application resets the stream: its send state becomes ResetSent
reset_stream(streams) == [streams EXCEPT !.outgoing = cancel(@)]

\* TransmitStream::confirm_reset_rcvd: the Outgoing of the stream of the frame
confirm_reset_rcvd(streams) == [streams EXCEPT !.outgoing = confirm_reset(@)]

\* ObserveAck (its implementation is not part of the sources): the largest
\* packet numbers the receive side was told of
NewObserver == [on_ack_rcvd |-> {}]
on_ack_rcvd(observer, largest) == [observer EXCEPT !.on_ack_rcvd = @ \cup {largest}]

\* IndexDeque<T> (index_deque.rs is not part of the sources): a deque whose
\* first element has index offset
IndexDequeDefault == [offset |-> 0, deque |-> << >>]
IndexDequeLargest(d) == d.offset + Len(d.deque)
IndexDequeContains(d, idx) == d.offset <= idx /\ idx < IndexDequeLargest(d)
IndexDequeGet(d, idx) == IF IndexDequeContains(d, idx)
                         THEN d.deque[idx - d.offset + 1] ELSE None
IndexDequeSet(d, idx, v) ==
    [d EXCEPT !.deque = [@ EXCEPT ![idx - d.offset + 1] = v]]
IndexDequePush(d, v) == [d EXCEPT !.deque = Append(@, v)]
IndexDequeAdvance(d, n) ==
    [offset |-> d.offset + n, deque |-> SubSeq(d.deque, n + 1, Len(d.deque))]

\* Transmitter::new
NewTransmitter ==
    [sending_frames |-> << >>,
     inflight_packets |-> IndexDequeDefault,
     inner |-> NewStreams,
     time_of_last_sent_ack_eliciting_packet |-> None,
     largest_acked_pktid |-> None,
     ack_observer |-> NewObserver]

\* Transmitter::write_conn_frame, write_stream_frame
write_frame(self, frame) ==
    [self EXCEPT !.sending_frames = Append(@, frame)]

\* Transmitter::next_pkt_no
next_pkt_no(self) == IndexDequeLargest(self.inflight_packets)

\* Transmitter::record_sent_packet
record_sent_packet(self, packet) ==
    [self EXCEPT !.inflight_packets = IndexDequePush(@, Some(packet))]

\* the loop of Transmitter::read over sending_frames: the frames left, the
\* room left in the buffer, the records and the frames put in the buffer
RECURSIVE ReadFrames(_, _, _, _)
ReadFrames(frames, remaining, records, buf) ==
    IF frames = << >>
    THEN [frames |-> frames, remaining |-> remaining, records |-> records, buf |-> buf]
    ELSE LET frame == Head(frames) IN
         IF remaining >= max_encoding_size(frame) \/ remaining >= encoding_size(frame)
         THEN ReadFrames(Tail(frames), remaining - encoding_size(frame),
                         Append(records, Reliable(frame)), Append(buf, frame))
         ELSE [frames |-> frames, remaining |-> remaining, records |-> records, buf |-> buf]

\* CryptoStream / TransmitStream::try_read_data (not part of the sources):
\* one segment of one byte when the stream has data and the buffer has room
TryReadData(st, has_data, which) ==
    IF has_data /\ st.remaining >= 1
    THEN [st EXCEPT !.remaining = @ - 1, !.records = Append(@, DataRecord(which))]
    ELSE st

\* Transmitter::read: [self, buf, records, sent_bytes]
tx_read(self, remaning, crypto, stream, now) ==
    LET st1 == ReadFrames(self.sending_frames, remaning, << >>, << >>)
        is_ack_eliciting == st1.records # << >>
        st2 == TryReadData(TryReadData(st1, crypto, "Crypto"), stream, "Stream")
        sent_bytes == remaning - st2.remaining
        popped == [self EXCEPT !.sending_frames = st1.frames]
        timed == IF is_ack_eliciting
                 THEN [popped EXCEPT !.time_of_last_sent_ack_eliciting_packet = Some(now)]
                 ELSE popped
    IN  IF sent_bytes = 0
        THEN [self |-> popped, buf |-> st2.buf, records |-> st2.records, sent_bytes |-> 0]
        ELSE [self |-> record_sent_packet(timed,
                           [payload |-> st2.records,
                            sent_bytes |-> sent_bytes,
                            is_ack_eliciting |-> is_ack_eliciting]),
              buf |-> st2.buf, records |-> st2.records, sent_bytes |-> sent_bytes]

\* Transmitter::confirm_packet_rcvd over the records of the payload
RECURSIVE ConfirmRecords(_, _)
ConfirmRecords(self, payload) ==
    IF payload = << >> THEN self
    ELSE LET record == Head(payload) IN
         ConfirmRecords(
             CASE record.kind = "Ack" ->
                      [self EXCEPT !.ack_observer = on_ack_rcvd(@, record.frame)]
               [] record.kind = "Reliable" /\ record.frame = ResetStream ->
                      [self EXCEPT !.inner = confirm_reset_rcvd(@)]
               [] OTHER -> self,
             Tail(payload))

\* Transmitter::confirm_packet_rcvd
confirm_packet_rcvd(self, pkt_id, packet) == ConfirmRecords(self, packet.payload)

\* the loops of Transmitter::recv_ack_frame over the packet numbers of the frame
RECURSIVE RecvAckLoop(_, _, _)
RecvAckLoop(self, pktids, confirmed) ==
    IF pktids = << >> THEN [self |-> self, confirmed |-> confirmed]
    ELSE LET pktid == Head(pktids)
             record == IndexDequeGet(self.inflight_packets, pktid)
         IN  IF IsSome(record)
             THEN RecvAckLoop(
                      confirm_packet_rcvd(
                          [self EXCEPT !.inflight_packets = IndexDequeSet(@, pktid, None)],
                          pktid, Unwrap(record)),
                      Tail(pktids), confirmed \cup {pktid})
             ELSE RecvAckLoop(self, Tail(pktids), confirmed)

\* Transmitter::recv_ack_frame: [self, confirmed]
recv_ack_frame(self, ack) ==
    LET largest_acked == SetMax(ack) IN
    IF IsSome(self.largest_acked_pktid) /\ Unwrap(self.largest_acked_pktid) > largest_acked
    THEN [self |-> self, confirmed |-> {}]
    ELSE RecvAckLoop([self EXCEPT !.largest_acked_pktid = Some(largest_acked)],
                     AckOrder(ack), {})

\* Transmitter::slide_inflight_pkt_window
slide_inflight_pkt_window(self) ==
    LET q == self.inflight_packets.deque
        n == IF \E i \in 1..Len(q) : IsSome(q[i])
             THEN (CHOOSE i \in 1..Len(q) :
                       IsSome(q[i]) /\ \A j \in 1..(i - 1) : ~IsSome(q[j])) - 1
             ELSE Len(q)
    IN  [self EXCEPT !.inflight_packets = IndexDequeAdvance(@, n)]

\* the reliable frames of a payload, in order
RECURSIVE ReliableFrames(_)
ReliableFrames(payload) ==
    IF payload = << >> THEN << >>
    ELSE IF Head(payload).kind = "Reliable"
         THEN <<Head(payload).frame>> \o ReliableFrames(Tail(payload))
         ELSE ReliableFrames(Tail(payload))

\* a loss report that takes the record and forgets its frames
may_loss_packet_forgets(self, pkt_id) ==
    LET record == IndexDequeGet(self.inflight_packets, pkt_id) IN
    IF IsSome(record)
    THEN [self EXCEPT !.inflight_packets = IndexDequeSet(@, pkt_id, None)]
    ELSE self

\* a loss report that queues the frames again and keeps the record
may_loss_packet_keeps(self, pkt_id) ==
    LET record == IndexDequeGet(self.inflight_packets, pkt_id) IN
    IF IsSome(record)
    THEN [self EXCEPT !.sending_frames = @ \o ReliableFrames(Unwrap(record).payload)]
    ELSE self

\* Transmitter::may_loss_packet
may_loss_packet(self, pkt_id) ==
    LET record == IndexDequeGet(self.inflight_packets, pkt_id) IN
    IF IsSome(record)
    THEN [self EXCEPT !.inflight_packets = IndexDequeSet(@, pkt_id, None),
                      !.sending_frames = @ \o ReliableFrames(Unwrap(record).payload)]
    ELSE self

\* ArcTransmitter::may_loss_packet
arc_may_loss_packet(self, pkt_id) ==
    slide_inflight_pkt_window(may_loss_packet(self, pkt_id))

\* --------------------------------------------------------------- space.rs
\* ArcSentPktRecords and ArcReliableFrameQueue (reliable.rs is not part of
\* the sources), spec 3: the records are an indexed deque keyed by packet
\* number, the queue is a FIFO
NewSpace ==
    [reliable_frame_queue |-> << >>,
     sent_pkt_records |-> [sent |-> IndexDequeDefault, largest_acked |-> None],
     rcvd_pkt_records |-> NewObserver,
     data_streams |-> NewStreams]

\* the first Some of the deque becomes its head
SlideRecords(d) ==
    LET q == d.deque
        n == IF \E i \in 1..Len(q) : IsSome(q[i])
             THEN (CHOOSE i \in 1..Len(q) :
                       IsSome(q[i]) /\ \A j \in 1..(i - 1) : ~IsSome(q[j])) - 1
             ELSE Len(q)
    IN  IndexDequeAdvance(d, n)

\* RecvGuard::on_pkt_acked and RecvGuard::may_loss_pkt: the record of pn is
\* removed and its sent records are handed to the caller
TakeRecord(records, pn) ==
    LET record == IndexDequeGet(records.sent, pn) IN
    IF IsSome(record)
    THEN [records |-> [records EXCEPT !.sent = IndexDequeSet(@, pn, None)],
          payload |-> Unwrap(record)]
    ELSE [records |-> records, payload |-> << >>]

\* RecvGuard::update_largest
update_largest(records, largest) ==
    [records EXCEPT !.largest_acked =
        IF IsSome(@) THEN Some(Max2(Unwrap(@), largest)) ELSE Some(largest)]

\* PacketNumber::size of the encoded packet number
PnSize(pn) == 1

\* ArcReliableFrameQueue::write().push_reliable_frame
push_reliable_frame(self, frame) ==
    [self EXCEPT !.reliable_frame_queue = Append(@, frame)]

\* the loop of RawSpace::read over the reliable frame queue
RECURSIVE SpaceReadFrames(_, _, _, _)
SpaceReadFrames(frames, remaining, records, buf) ==
    IF frames = << >>
    THEN [frames |-> frames, remaining |-> remaining, records |-> records, buf |-> buf]
    ELSE LET frame == Head(frames) IN
         IF remaining > max_encoding_size(frame) \/ remaining > encoding_size(frame)
         THEN SpaceReadFrames(Tail(frames), remaining - encoding_size(frame),
                              Append(records, Reliable(frame)), Append(buf, frame))
         ELSE [frames |-> frames, remaining |-> remaining, records |-> records, buf |-> buf]

\* a read that records the ACK frame after the frames of the queue
space_read_ack_last(self, origin, ack_pkt, crypto, stream) ==
    LET pn == IndexDequeLargest(self.sent_pkt_records.sent) IN
    IF ~(origin > PnSize(pn))
    THEN [self |-> self, buf |-> << >>, records |-> << >>, pn |-> pn, sent_bytes |-> 0]
    ELSE LET st0 == [frames |-> self.reliable_frame_queue,
                     remaining |-> origin - PnSize(pn),
                     records |-> << >>, buf |-> << >>]
             st1 == IF IsSome(ack_pkt) THEN [st0 EXCEPT !.remaining = @ - 1] ELSE st0
             st2 == SpaceReadFrames(st1.frames, st1.remaining, st1.records, st1.buf)
             st2a == IF IsSome(ack_pkt)
                     THEN [st2 EXCEPT !.records = Append(@, AckRecord(Unwrap(ack_pkt)))]
                     ELSE st2
             st3 == TryReadData(TryReadData(st2a, crypto, "Crypto"), stream, "Stream")
         IN  [self |-> [self EXCEPT
                           !.reliable_frame_queue = st2.frames,
                           !.sent_pkt_records.sent = IndexDequePush(@, Some(st3.records))],
              buf |-> st3.buf, records |-> st3.records, pn |-> pn,
              sent_bytes |-> origin - st3.remaining]

\* RawSpace::read: [self, buf, records, pn, sent_bytes]; the ACK frame is cut
\* to the room left (gen_ack_frame_util) and takes one byte here
space_read(self, origin, ack_pkt, crypto, stream) ==
    LET pn == IndexDequeLargest(self.sent_pkt_records.sent) IN
    IF ~(origin > PnSize(pn))
    THEN [self |-> self, buf |-> << >>, records |-> << >>, pn |-> pn, sent_bytes |-> 0]
    ELSE LET st0 == [frames |-> self.reliable_frame_queue,
                     remaining |-> origin - PnSize(pn),
                     records |-> << >>, buf |-> << >>]
             st1 == IF IsSome(ack_pkt)
                    THEN [st0 EXCEPT !.remaining = @ - 1,
                                     !.records = Append(@, AckRecord(Unwrap(ack_pkt)))]
                    ELSE st0
             st2 == SpaceReadFrames(st1.frames, st1.remaining, st1.records, st1.buf)
             st3 == TryReadData(TryReadData(st2, crypto, "Crypto"), stream, "Stream")
         IN  [self |-> [self EXCEPT
                           !.reliable_frame_queue = st2.frames,
                           !.sent_pkt_records.sent = IndexDequePush(@, Some(st3.records))],
              buf |-> st3.buf, records |-> st3.records, pn |-> pn,
              sent_bytes |-> origin - st3.remaining]

\* the match of RawSpace::on_ack over the records of an acknowledged packet:
\* SentRecord::Ack and SentRecord::Reliable do nothing, the data frames go
\* to the streams (on_data_acked keeps nothing here)
RECURSIVE OnAckRecords(_, _)
OnAckRecords(self, payload) ==
    IF payload = << >> THEN self
    ELSE OnAckRecords(self, Tail(payload))

\* the loop of RawSpace::on_ack
RECURSIVE OnAckLoop(_, _)
OnAckLoop(self, pns) ==
    IF pns = << >> THEN self
    ELSE LET taken == TakeRecord(self.sent_pkt_records, Head(pns)) IN
         OnAckLoop(
             OnAckRecords([self EXCEPT !.sent_pkt_records = taken.records],
                          taken.payload),
             Tail(pns))

\* ack.iter().flat_map(|r| r.rev()): the packet numbers from the largest down
RECURSIVE Descending(_)
Descending(F) ==
    IF F = {} THEN << >> ELSE <<SetMax(F)>> \o Descending(F \ {SetMax(F)})

\* RawSpace::on_ack
on_ack(self, ack) ==
    LET acked == OnAckLoop(
                     [self EXCEPT !.sent_pkt_records = update_largest(@, SetMax(ack))],
                     Descending(ack))
    IN  [acked EXCEPT !.sent_pkt_records.sent = SlideRecords(@)]

\* RawSpace::may_loss_pkt
may_loss_pkt(self, pn) ==
    LET taken == TakeRecord(self.sent_pkt_records, pn) IN
    [self EXCEPT !.sent_pkt_records = [taken.records EXCEPT !.sent = SlideRecords(@)],
                 !.reliable_frame_queue = @ \o ReliableFrames(taken.payload)]

\* ------------------------------------------------------ qrecovery: actions
Absent == << >>

\* the last call: its arguments and results, and for a read the packet
\* number returned, the ACK asked for and the queue the read started from
TxIdle == [op |-> "new", pns |-> {}, buf |-> << >>, sent_bytes |-> 0, nframes |-> 0,
           pn |-> None, ack_pkt |-> None, queue |-> << >>, next |-> 0,
           records |-> << >>]

TxCall(op, pns, buf, sent_bytes, nframes) ==
    [TxIdle EXCEPT !.op = op, !.pns = pns, !.buf = buf, !.sent_bytes = sent_bytes,
                   !.nframes = nframes]

\* ack_pkt of ArcSpace::read: no ACK to send, or the largest packet received
AckHints == {None, Some(0)}
\* the same with two packets received
AckHintsObs == {None, Some(0), Some(1)}

\* a space sends through a Transmitter or is a RawSpace
InitTx ==
    /\ cc = NewController
    /\ last = NoCall
    /\ clock = 0
    /\ ghost = GhostInit
    /\ txlast = TxIdle
    /\ snd = << >>
    /\ env = << >>
    /\ ExtIdle
    /\ \/ tx = NewTransmitter /\ sp = Absent
       \/ tx = Absent /\ sp = NewSpace

TxWriteFrame ==
    /\ tx # Absent
    /\ txlast.nframes < MaxFrames
    /\ tx' = write_frame(tx, txlast.nframes + 1)
    /\ txlast' = TxCall("write_frame", {}, << >>, 0, txlast.nframes + 1)
    /\ UNCHANGED <<extvars, sp, cc, last, clock, ghost, sndvars>>

TxRead(remaning, crypto, stream) ==
    /\ tx # Absent
    /\ next_pkt_no(tx) < MaxPkts
    /\ LET r == tx_read(tx, remaning, crypto, stream, clock) IN
       /\ tx' = r.self
       /\ txlast' = [TxCall("read", {}, r.buf, r.sent_bytes, txlast.nframes)
                         EXCEPT !.queue = tx.sending_frames,
                                !.next = next_pkt_no(tx),
                                !.records = r.records]
    /\ UNCHANGED <<extvars, sp, cc, last, clock, ghost, sndvars>>

TxRecvAckFrame(ack) ==
    /\ tx # Absent
    /\ ack # {}
    /\ ack \subseteq 0..(next_pkt_no(tx) - 1)
    /\ tx' = recv_ack_frame(tx, ack).self
    /\ txlast' = TxCall("recv_ack_frame", ack, << >>, 0, txlast.nframes)
    /\ UNCHANGED <<extvars, sp, cc, last, clock, ghost, sndvars>>

TxMayLossPacket(pkt_id) ==
    /\ tx # Absent
    /\ pkt_id < next_pkt_no(tx)
    /\ tx' = arc_may_loss_packet(tx, pkt_id)
    /\ txlast' = TxCall("may_loss_packet", {pkt_id}, << >>, 0, txlast.nframes)
    /\ UNCHANGED <<extvars, sp, cc, last, clock, ghost, sndvars>>

SpWriteFrame ==
    /\ sp # Absent
    /\ txlast.nframes < MaxFrames
    /\ sp' = push_reliable_frame(sp, txlast.nframes + 1)
    /\ txlast' = TxCall("push_reliable_frame", {}, << >>, 0, txlast.nframes + 1)
    /\ UNCHANGED <<extvars, tx, cc, last, clock, ghost, sndvars>>

SpRead(origin, ack_pkt, crypto, stream) ==
    /\ sp # Absent
    /\ IndexDequeLargest(sp.sent_pkt_records.sent) < MaxPkts
    /\ LET r == space_read(sp, origin, ack_pkt, crypto, stream) IN
       /\ sp' = r.self
       /\ txlast' = [TxCall("space_read", {}, r.buf, r.sent_bytes, txlast.nframes)
                         EXCEPT !.pn = Some(r.pn), !.ack_pkt = ack_pkt,
                                !.queue = sp.reliable_frame_queue,
                                !.next = IndexDequeLargest(sp.sent_pkt_records.sent),
                                !.records = r.records]
    /\ UNCHANGED <<extvars, tx, cc, last, clock, ghost, sndvars>>

SpOnAck(ack) ==
    /\ sp # Absent
    /\ ack # {}
    /\ ack \subseteq 0..(IndexDequeLargest(sp.sent_pkt_records.sent) - 1)
    /\ sp' = on_ack(sp, ack)
    /\ txlast' = TxCall("on_ack", ack, << >>, 0, txlast.nframes)
    /\ UNCHANGED <<extvars, tx, cc, last, clock, ghost, sndvars>>

SpMayLossPkt(pn) ==
    /\ sp # Absent
    /\ pn < IndexDequeLargest(sp.sent_pkt_records.sent)
    /\ sp' = may_loss_pkt(sp, pn)
    /\ txlast' = TxCall("may_loss_pkt", {pn}, << >>, 0, txlast.nframes)
    /\ UNCHANGED <<extvars, tx, cc, last, clock, ghost, sndvars>>

NextTx ==
    \/ TxWriteFrame
    \/ \E b \in 0..MaxBuf, crypto \in BOOLEAN, stream \in BOOLEAN : TxRead(b, crypto, stream)
    \/ \E ack \in SUBSET (0..(MaxPkts - 1)) : TxRecvAckFrame(ack)
    \/ \E pn \in 0..(MaxPkts - 1) : TxMayLossPacket(pn)
    \/ SpWriteFrame
    \/ \E b \in 0..MaxBuf, a \in AckHints, crypto \in BOOLEAN, stream \in BOOLEAN :
           SpRead(b, a, crypto, stream)
    \/ \E ack \in SUBSET (0..(MaxPkts - 1)) : SpOnAck(ack)
    \/ \E pn \in 0..(MaxPkts - 1) : SpMayLossPkt(pn)

SpecTx == InitTx /\ [][NextTx]_vars

\* ------------------------------------------------------- qrecovery: claims
\* the queue and the records of the sender that was built
SenderOf(t, s) ==
    IF t # Absent
    THEN [queue |-> t.sending_frames,
          sent |-> [pn \in 0..(MaxPkts - 1) |->
                       LET r == IndexDequeGet(t.inflight_packets, pn) IN
                       IF IsSome(r) THEN ReliableFrames(Unwrap(r).payload) ELSE << >>],
          next |-> IndexDequeLargest(t.inflight_packets)]
    ELSE [queue |-> s.reliable_frame_queue,
          sent |-> [pn \in 0..(MaxPkts - 1) |->
                       LET r == IndexDequeGet(s.sent_pkt_records.sent, pn) IN
                       IF IsSome(r) THEN ReliableFrames(Unwrap(r)) ELSE << >>],
          next |-> IndexDequeLargest(s.sent_pkt_records.sent)]

Count(q, f) == Cardinality({i \in 1..Len(q) : q[i] = f})
InQueue(v, f) == Count(v.queue, f)
InPacket(v, pn, f) == Count(v.sent[pn], f)
InRecords(v, f) ==
    Cardinality({<<pn, i>> \in (0..(MaxPkts - 1)) \X (1..MaxFrames) :
                    i <= Len(v.sent[pn]) /\ v.sent[pn][i] = f})
Copies(v, f) == InQueue(v, f) + InRecords(v, f)
IsSuffix(q, tail) ==
    Len(tail) <= Len(q) /\ SubSeq(q, Len(q) - Len(tail) + 1, Len(q)) = tail

ReadOps == {"read", "space_read"}
AckOps == {"recv_ack_frame", "on_ack"}
LossOps == {"may_loss_packet", "may_loss_pkt"}

\* C4: a reliable frame that was put in the queue is, until its packet is
\* acknowledged, in the queue or in the record of exactly one unacknowledged
\* packet, never in both and never twice; read moves it into the record of
\* the packet it builds exactly when it put the frame in the buffer; a loss
\* report of its packet moves it to the back of the queue; it disappears
\* only in an acknowledgement that names its packet, and never comes back.
C4_FrameConserved ==
    [][\A a \in {SenderOf(tx, sp)}, b \in {SenderOf(tx', sp')} :
           \A f \in 1..txlast'.nframes :
             /\ Copies(b, f) <= 1
             /\ f > txlast.nframes => IsSuffix(b.queue, <<f>>)
             /\ f <= txlast.nframes =>
                  /\ Copies(a, f) = 0 => Copies(b, f) = 0
                  /\ Copies(a, f) = 1 /\ Copies(b, f) = 0 =>
                        /\ txlast'.op \in AckOps
                        /\ \E pn \in txlast'.pns : InPacket(a, pn, f) = 1
                  /\ InQueue(a, f) = 1 /\ InRecords(b, f) = 1 =>
                        /\ txlast'.op \in ReadOps
                        /\ Count(txlast'.buf, f) = 1
                        /\ InPacket(b, a.next, f) = 1
                  /\ txlast'.op \in ReadOps /\ Count(txlast'.buf, f) > 0 =>
                        InQueue(a, f) = 1 /\ InPacket(b, a.next, f) = 1
                  /\ InRecords(a, f) = 1 /\ InQueue(b, f) = 1 =>
                        /\ txlast'.op \in LossOps
                        /\ \E pn \in txlast'.pns :
                              /\ InPacket(a, pn, f) = 1
                              /\ b.queue = a.queue \o a.sent[pn]
      ]_vars

\* a frame that was sent, reported lost and queued again behind a later one,
\* in a Transmitter and in a RawSpace
C4_Witness ==
    /\ txlast.op \in LossOps
    /\ txlast.nframes >= 2
    /\ SenderOf(tx, sp).queue = <<2, 1>>

\* C21: a packet recorded by Transmitter.read is marked ack-eliciting exactly
\* when it carries a frame other than Padding, Ack and ConnectionClose (the
\* reliable frames written here are none of these); a packet of CRYPTO or
\* STREAM data alone is ack-eliciting and sets the time of the last
\* ack-eliciting packet.
C21_AckElicitingMarked ==
    (txlast.op = "read" /\ txlast.records # << >>) =>
        LET packet == IndexDequeGet(tx.inflight_packets, txlast.next)
            eliciting == \E i \in 1..Len(txlast.records) :
                             txlast.records[i].kind \in {"Reliable", "Data"}
        IN  /\ IsSome(packet)
            /\ Unwrap(packet).is_ack_eliciting = eliciting
            /\ eliciting => tx.time_of_last_sent_ack_eliciting_packet = Some(clock)

\* the record of packet pn held by the Transmitter
Inflight(self, pn) == IndexDequeGet(self.inflight_packets, pn)

\* C32: the payload of a sent packet is handed over at most once. A record
\* that was taken never comes back; a loss report of a packet whose record is
\* held takes it and queues its frames, and one of a packet whose record was
\* taken changes no frame; an acknowledgement takes the records it names, and
\* one that names only packets whose records were taken changes nothing but
\* the largest acknowledged packet number.
C32_HandedOnce ==
    [][tx # Absent =>
         /\ \A pn \in 0..(next_pkt_no(tx) - 1) :
                ~IsSome(Inflight(tx, pn)) => ~IsSome(Inflight(tx', pn))
         /\ txlast'.op = "may_loss_packet" =>
                \A pn \in txlast'.pns :
                    /\ ~IsSome(Inflight(tx', pn))
                    /\ tx'.sending_frames =
                           IF IsSome(Inflight(tx, pn))
                           THEN tx.sending_frames
                                    \o ReliableFrames(Unwrap(Inflight(tx, pn)).payload)
                           ELSE tx.sending_frames
                    /\ tx'.inner = tx.inner
                    /\ tx'.ack_observer = tx.ack_observer
         /\ txlast'.op = "recv_ack_frame" =>
                /\ tx'.sending_frames = tx.sending_frames
                /\ tx'.largest_acked_pktid # tx.largest_acked_pktid =>
                       \A pn \in txlast'.pns : ~IsSome(Inflight(tx', pn))
                /\ (\A pn \in txlast'.pns : ~IsSome(Inflight(tx, pn))) =>
                       tx' = [tx EXCEPT !.largest_acked_pktid = tx'.largest_acked_pktid]
      ]_vars

\* packet 0 is acknowledged after a loss report has slid the window past it
C32_Witness ==
    /\ tx # Absent
    /\ txlast.op = "recv_ack_frame"
    /\ 0 \in txlast.pns
    /\ tx.inflight_packets.offset >= 1
    /\ tx.sending_frames # << >>

\* ------------------------------------------- largest acknowledged: bounds
\* the packets the controller is told of, and the largest packet number an
\* ACK frame may name
MaxSendsLa == 2
MaxPnLa == 2

\* ------------------------------------------ largest acknowledged: actions
\* a controller and a Transmitter; the peer's ACK frames name any packet
\* numbers, sent or not
InitLa ==
    /\ cc = NewController
    /\ last = NoCall
    /\ clock = 0
    /\ ghost = GhostInit
    /\ tx = NewTransmitter
    /\ sp = Absent
    /\ txlast = TxIdle
    /\ snd = << >>
    /\ env = << >>
    /\ ExtIdle

LaPacketSent ==
    /\ ghost.nsends < MaxSendsLa
    /\ OnPacketSent(Cardinality(ghost.sent_ever[Initial]), Initial, TRUE, TRUE, TRUE)

LaAcked(frame) == OnAcked(Initial, frame, TRUE)

LaRecvAckFrame(ack) ==
    /\ tx' = recv_ack_frame(tx, ack).self
    /\ txlast' = TxCall("recv_ack_frame", ack, << >>, 0, txlast.nframes)
    /\ UNCHANGED <<extvars, sp, cc, last, clock, ghost, sndvars>>

NextLa ==
    \/ LaPacketSent
    \/ \E frame \in SUBSET (0..MaxPnLa) \ {{}} : LaAcked(frame)
    \/ TxWriteFrame
    \/ \E b \in 0..MaxBuf, crypto \in BOOLEAN : TxRead(b, crypto, FALSE)
    \/ \E ack \in SUBSET (0..MaxPnLa) \ {{}} : LaRecvAckFrame(ack)

SpecLa == InitLa /\ [][NextLa]_vars

\* ------------------------------------------- largest acknowledged: claims
\* C35: the largest acknowledged packet number recorded by the controller
\* and by the Transmitter is that of a packet that was sent, and an ACK frame
\* whose largest was never sent does not make on_acked fail.
C35_LargestAckedWasSent ==
    /\ \A e \in Epochs :
           IsSome(cc.largest_acked_packet[e])
               => Unwrap(cc.largest_acked_packet[e]) \in ghost.sent_ever[e]
    /\ IsSome(tx.largest_acked_pktid)
           => Unwrap(tx.largest_acked_pktid) < next_pkt_no(tx)
    /\ (last.op = "on_acked" /\ SetMax(last.frame) \notin ghost.sent_ever[last.space])
           => cc.panic = ""

\* ------------------------------------------- acknowledged payload: bounds
\* largest buffer handed to read when the payload of a packet is followed
MaxBufObs == 4

\* ------------------------------------------ acknowledged payload: actions
\* ArcTransmitter::record_sent_ack of a packet that carries only an ACK frame
TxRecordSentAck(largest) ==
    /\ tx # Absent
    /\ next_pkt_no(tx) < MaxPkts
    /\ tx' = record_sent_packet(tx, [payload |-> <<AckRecord(largest)>>,
                                     sent_bytes |-> 1,
                                     is_ack_eliciting |-> FALSE])
    /\ txlast' = [TxCall("record_sent_ack", {}, << >>, 1, txlast.nframes)
                     EXCEPT !.pn = Some(next_pkt_no(tx)), !.ack_pkt = Some(largest),
                            !.next = next_pkt_no(tx)]
    /\ UNCHANGED <<extvars, sp, cc, last, clock, ghost, sndvars>>

\* the application resets the stream of a Transmitter: RESET_STREAM is queued
TxResetStream ==
    /\ tx # Absent
    /\ tx.inner.outgoing.kind \in {"Ready", "Sending", "DataSent"}
    /\ tx' = write_frame([tx EXCEPT !.inner = reset_stream(@)], ResetStream)
    /\ txlast' = TxCall("reset_stream", {}, << >>, 0, txlast.nframes)
    /\ UNCHANGED <<extvars, sp, cc, last, clock, ghost, sndvars>>

\* the application resets the stream of a space: RESET_STREAM is queued
SpResetStream ==
    /\ sp # Absent
    /\ sp.data_streams.outgoing.kind \in {"Ready", "Sending", "DataSent"}
    /\ sp' = push_reliable_frame([sp EXCEPT !.data_streams = reset_stream(@)],
                                 ResetStream)
    /\ txlast' = TxCall("reset_stream", {}, << >>, 0, txlast.nframes)
    /\ UNCHANGED <<extvars, tx, cc, last, clock, ghost, sndvars>>

NextObs ==
    \/ \E largest \in 0..1 : TxRecordSentAck(largest)
    \/ TxResetStream
    \/ SpResetStream
    \/ \E b \in 0..MaxBufObs, crypto \in BOOLEAN, stream \in BOOLEAN :
           TxRead(b, crypto, stream)
    \/ \E b \in 0..MaxBufObs, a \in AckHintsObs, crypto \in BOOLEAN, stream \in BOOLEAN :
           SpRead(b, a, crypto, stream)
    \/ \E ack \in SUBSET (0..(MaxPkts - 1)) : TxRecvAckFrame(ack)
    \/ \E ack \in SUBSET (0..(MaxPkts - 1)) : SpOnAck(ack)
    \/ \E pn \in 0..(MaxPkts - 1) : TxMayLossPacket(pn)
    \/ \E pn \in 0..(MaxPkts - 1) : SpMayLossPkt(pn)

SpecObs == InitTx /\ [][NextObs]_vars

\* ------------------------------------------- acknowledged payload: claims
\* the records of the packet pn of the sender that was built
PayloadOf(t, s, pn) ==
    LET r == IF t # Absent THEN IndexDequeGet(t.inflight_packets, pn)
             ELSE IndexDequeGet(s.sent_pkt_records.sent, pn)
    IN  IF ~IsSome(r) THEN << >>
        ELSE IF t # Absent THEN Unwrap(r).payload ELSE Unwrap(r)

\* what the receive side was told, and the stream, of the sender that was built
ObserverOf(t, s) == IF t # Absent THEN t.ack_observer ELSE s.rcvd_pkt_records
StreamsOf(t, s) == IF t # Absent THEN t.inner ELSE s.data_streams

Carries(payload, kind, frame) ==
    \E i \in 1..Len(payload) : payload[i].kind = kind /\ payload[i].frame = frame

\* C11: when a packet that carried an ACK frame is acknowledged, the receive
\* side is told the largest packet number of that frame, whether the
\* acknowledgement comes through Transmitter.recv_ack_frame or Space.on_ack.
C11_AckOfAckObserved ==
    [][txlast'.op \in AckOps =>
           \A pn \in txlast'.pns, largest \in 0..1 :
               Carries(PayloadOf(tx, sp, pn), "Ack", largest)
                   => largest \in ObserverOf(tx', sp').on_ack_rcvd]_vars

\* C17: when the packet that carried the RESET_STREAM of a stream is
\* acknowledged, the stream moves from ResetSent to ResetRecvd, whether the
\* acknowledgement comes through Transmitter.recv_ack_frame or Space.on_ack.
C17_ResetConfirmed ==
    [][txlast'.op \in AckOps =>
           \A pn \in txlast'.pns :
               (/\ Carries(PayloadOf(tx, sp, pn), "Reliable", ResetStream)
                /\ StreamsOf(tx, sp).outgoing.kind = "ResetSent")
                   => StreamsOf(tx', sp').outgoing.kind = "ResetRecvd"]_vars

\* ------------------------------------------------- packet assembly: bounds
\* largest buffer handed to ArcSpace::read when its records are followed
MaxBufRd == 5

\* ------------------------------------------------ packet assembly: actions
InitRd ==
    /\ cc = NewController
    /\ last = NoCall
    /\ clock = 0
    /\ ghost = GhostInit
    /\ txlast = TxIdle
    /\ snd = << >>
    /\ env = << >>
    /\ ExtIdle
    /\ tx = Absent
    /\ sp = NewSpace

NextRd ==
    \/ SpWriteFrame
    \/ \E b \in 0..MaxBufRd, a \in AckHints, crypto \in BOOLEAN, stream \in BOOLEAN :
           SpRead(b, a, crypto, stream)
    \/ \E ack \in SUBSET (0..(MaxPkts - 1)) : SpOnAck(ack)
    \/ \E pn \in 0..(MaxPkts - 1) : SpMayLossPkt(pn)

SpecRd == InitRd /\ [][NextRd]_vars

\* ------------------------------------------------- packet assembly: claims
\* the records of the frames q[1..k]
ReliableRecords(q, k) == [i \in 1..k |-> Reliable(q[i])]

\* two payloads list the same records
SameRecords(a, b) ==
    /\ Len(a) = Len(b)
    /\ \A i \in 1..Len(a) : a[i].kind = b[i].kind /\ a[i].frame = b[i].frame

\* the read has assembled a packet: the buffer had room after the packet number
Assembled ==
    /\ txlast.op = "space_read"
    /\ IndexDequeLargest(sp.sent_pkt_records.sent) = txlast.next + 1

\* C19: the record of a packet assembled by Space.read lists the ACK frame
\* (if and only if ack_pkt is Some), then the frames of the head of the
\* reliable queue in their order, then at most one CRYPTO segment, then at
\* most one STREAM segment, and it is stored under the packet number returned.
C19_RecordOrder ==
    Assembled =>
        /\ txlast.pn = Some(txlast.next)
        /\ IsSome(IndexDequeGet(sp.sent_pkt_records.sent, Unwrap(txlast.pn)))
        /\ SameRecords(PayloadOf(tx, sp, Unwrap(txlast.pn)), txlast.records)
        /\ \E k \in 0..Len(txlast.queue), c \in BOOLEAN, d \in BOOLEAN :
               /\ SameRecords(
                      txlast.records,
                      (IF IsSome(txlast.ack_pkt)
                       THEN <<AckRecord(Unwrap(txlast.ack_pkt))>> ELSE << >>)
                      \o ReliableRecords(txlast.queue, k)
                      \o (IF c THEN <<DataRecord("Crypto")>> ELSE << >>)
                      \o (IF d THEN <<DataRecord("Stream")>> ELSE << >>))
               /\ sp.reliable_frame_queue = SubSeq(txlast.queue, k + 1, Len(txlast.queue))

\* a packet with an ACK frame, a reliable frame, a CRYPTO and a STREAM segment
C19_Witness ==
    /\ Assembled
    /\ Len(txlast.records) = 4
    /\ txlast.records[1].kind = "Ack"
    /\ txlast.records[2].kind = "Reliable"
    /\ sp.reliable_frame_queue # << >>

\* C20: a read that wrote no frame reports a payload of 0 bytes; Transmitter
\* read then also records no packet and consumes no packet number.
C20_NothingWritten ==
    /\ (txlast.op = "space_read" /\ txlast.records = << >>) => txlast.sent_bytes = 0
    /\ (txlast.op = "read" /\ txlast.records = << >>) =>
           /\ txlast.sent_bytes = 0
           /\ next_pkt_no(tx) = txlast.next

\* ---------------------------------------------- concurrent senders: bounds
\* send tasks that share the space
MaxTasks == 2
\* packets sent in one run of SpecPn
MaxPktsPn == 3

\* --------------------------------------------- concurrent senders: actions
Tasks == 1..MaxTasks

\* a task has no packet number, holds one, or has recorded its packet; key
\* is the index its record was stored at
TaskIdle == [pc |-> "idle", pn |-> None, key |-> None]

InitPn ==
    /\ cc = NewController
    /\ last = NoCall
    /\ clock = 0
    /\ ghost = GhostInit
    /\ txlast = TxIdle
    /\ snd = << >>
    /\ env = [t \in Tasks |-> TaskIdle]
    /\ ExtIdle
    /\ \/ tx = NewTransmitter /\ sp = Absent
       \/ tx = Absent /\ sp = NewSpace

\* ArcTransmitter::next_pkt_no: the lock is taken and released
TaskNextPktNo(t) ==
    /\ tx # Absent
    /\ env[t].pc = "idle"
    /\ next_pkt_no(tx) < MaxPktsPn
    /\ env' = [env EXCEPT ![t] = [pc |-> "numbered", pn |-> Some(next_pkt_no(tx)),
                                  key |-> None]]
    /\ txlast' = TxCall("next_pkt_no", {}, << >>, 0, txlast.nframes)
    /\ UNCHANGED <<extvars, tx, sp, cc, last, clock, ghost, snd>>

\* ArcTransmitter::record_sent_ack of the packet the task built under the
\* number it holds; the ACK frame of task t has largest t
TaskRecordSentAck(t) ==
    /\ tx # Absent
    /\ env[t].pc = "numbered"
    /\ tx' = record_sent_packet(tx, [payload |-> <<AckRecord(t)>>,
                                     sent_bytes |-> 1,
                                     is_ack_eliciting |-> FALSE])
    /\ env' = [env EXCEPT ![t].pc = "sent", ![t].key = Some(next_pkt_no(tx))]
    /\ txlast' = TxCall("record_sent_ack", {}, << >>, 1, txlast.nframes)
    /\ UNCHANGED <<extvars, sp, cc, last, clock, ghost, snd>>

\* ArcTransmitter::read of the packet the task builds under the number it
\* holds: the stream has data
TaskRead(t, remaning) ==
    /\ tx # Absent
    /\ env[t].pc = "numbered"
    /\ LET r == tx_read(tx, remaning, FALSE, TRUE, clock) IN
       /\ r.sent_bytes > 0
       /\ tx' = r.self
       /\ txlast' = TxCall("read", {}, r.buf, r.sent_bytes, txlast.nframes)
    /\ env' = [env EXCEPT ![t].pc = "sent", ![t].key = Some(next_pkt_no(tx))]
    /\ UNCHANGED <<extvars, sp, cc, last, clock, ghost, snd>>

\* ArcSpace::read: the number is taken and the packet recorded under the
\* send guard; the ACK frame of task t has largest t
TaskSpaceRead(t, origin) ==
    /\ sp # Absent
    /\ env[t].pc = "idle"
    /\ IndexDequeLargest(sp.sent_pkt_records.sent) < MaxPktsPn
    /\ origin > PnSize(0)
    /\ LET r == space_read(sp, origin, Some(t), FALSE, TRUE) IN
       /\ sp' = r.self
       /\ txlast' = TxCall("space_read", {}, r.buf, r.sent_bytes, txlast.nframes)
       /\ env' = [env EXCEPT ![t] =
                     [pc |-> "sent", pn |-> Some(r.pn),
                      key |-> Some(IndexDequeLargest(sp.sent_pkt_records.sent))]]
    /\ UNCHANGED <<extvars, tx, cc, last, clock, ghost, snd>>

\* the packet of the task is on the wire: the task builds the next one
TaskDone(t) ==
    /\ env[t].pc = "sent"
    /\ env' = [env EXCEPT ![t] = TaskIdle]
    /\ txlast' = TxCall("sent", {}, << >>, 0, txlast.nframes)
    /\ UNCHANGED <<extvars, tx, sp, cc, last, clock, ghost, snd>>

NextPn ==
    \/ \E t \in Tasks : TaskNextPktNo(t)
    \/ \E t \in Tasks : TaskRecordSentAck(t)
    \/ \E t \in Tasks, b \in 1..MaxBuf : TaskRead(t, b)
    \/ \E t \in Tasks, b \in 1..MaxBuf : TaskSpaceRead(t, b)
    \/ \E t \in Tasks : TaskDone(t)

SpecPn == InitPn /\ [][NextPn]_vars

\* ---------------------------------------------- concurrent senders: claims
\* C12: with concurrent callers no two packets get the same packet number,
\* and the number handed to a caller is the key its packet is recorded under.
C12_SerialAllocation ==
    \A t \in Tasks :
        /\ env[t].pc = "sent" => env[t].key = env[t].pn
        /\ \A u \in Tasks \ {t} :
               (env[t].pc # "idle" /\ env[u].pc # "idle") => env[t].pn # env[u].pn

\* ---------------------------------------------------------- stream: actions
\* what the peer can know of the stream: the bytes sent so far
EnvInit == [sent_upto |-> 0]

InitSnd ==
    /\ cc = NewController
    /\ last = NoCall
    /\ clock = 0
    /\ ghost = GhostInit
    /\ tx = Absent
    /\ sp = Absent
    /\ txlast = TxIdle
    /\ snd = SenderWithBufSize(InitialMaxStreamData)
    /\ env = EnvInit
    /\ ExtIdle

\* Outgoing locks the sender: after a panic the mutex is poisoned
Usable == snd.panic = ""

\* Writer::write (send/writer.rs is not part of the sources)
WriterWrite(n) ==
    /\ Usable
    /\ snd.kind \in {"Ready", "Sending"}
    /\ ~snd.shutdown
    /\ snd' = SendBufWrite(Call(snd, "write"), n)
    /\ UNCHANGED <<extvars, env, ccvars, txvars>>

\* Writer::shutdown: a stream that is being sent has sent all its data
WriterShutdown ==
    /\ Usable
    /\ snd.kind \in {"Ready", "Sending"}
    /\ ~snd.shutdown
    /\ snd' = [Call(snd, "shutdown") EXCEPT
                  !.shutdown = TRUE,
                  !.kind = IF @ = "Sending" THEN "DataSent" ELSE @]
    /\ UNCHANGED <<extvars, env, ccvars, txvars>>

\* Writer::cancel: the application resets the stream
WriterCancel ==
    /\ Usable
    /\ snd.kind \in {"Ready", "Sending", "DataSent"}
    /\ snd' = cancel(snd)
    /\ UNCHANGED <<extvars, env, ccvars, txvars>>

\* MAX_STREAM_DATA received
OutUpdateWindow(max_data_size) ==
    /\ Usable
    /\ snd' = update_window(snd, max_data_size)
    /\ UNCHANGED <<extvars, env, ccvars, txvars>>

\* the send task fills a packet
OutTrySend(capacity) ==
    /\ Usable
    /\ snd' = try_send(snd, capacity)
    /\ env' = [env EXCEPT !.sent_upto =
                  IF IsSome(snd'.put)
                  THEN Max2(@, Unwrap(snd'.put).offset + Unwrap(snd'.put).len)
                  ELSE @]
    /\ UNCHANGED <<extvars, ccvars, txvars>>

\* a packet that carried the bytes lo..hi-1 is acknowledged
OutAckRecv(lo, hi) ==
    /\ Usable
    /\ lo < hi /\ hi <= env.sent_upto
    /\ snd' = ack_recv(snd, lo, hi)
    /\ UNCHANGED <<extvars, env, ccvars, txvars>>

\* a packet that carried the bytes lo..hi-1 is reported lost
OutMayLoss(lo, hi) ==
    /\ Usable
    /\ lo < hi /\ hi <= env.sent_upto
    /\ snd' = may_loss(snd, lo, hi)
    /\ UNCHANGED <<extvars, env, ccvars, txvars>>

\* STOP_SENDING received: the peer may send it at any time
OutStop ==
    /\ Usable
    /\ snd' = stop(snd)
    /\ UNCHANGED <<extvars, env, ccvars, txvars>>

\* the packet that carried RESET_STREAM is acknowledged: the frame is only
\* sent once the stream is reset
OutConfirmReset ==
    /\ Usable
    /\ snd.kind \in {"ResetSent", "ResetRecvd"}
    /\ snd' = confirm_reset(snd)
    /\ UNCHANGED <<extvars, env, ccvars, txvars>>

PollIsCancelled ==
    /\ Usable
    /\ snd' = poll_is_cancelled(snd)
    /\ UNCHANGED <<extvars, env, ccvars, txvars>>

NextSnd ==
    \/ \E n \in 1..MaxStreamData : WriterWrite(n)
    \/ WriterShutdown
    \/ WriterCancel
    \/ \E m \in 0..MaxStreamData : OutUpdateWindow(m)
    \/ \E c \in 0..MaxCap : OutTrySend(c)
    \/ \E lo \in 0..MaxStreamData, hi \in 0..MaxStreamData : OutAckRecv(lo, hi)
    \/ \E lo \in 0..MaxStreamData, hi \in 0..MaxStreamData : OutMayLoss(lo, hi)
    \/ OutStop
    \/ OutConfirmReset
    \/ PollIsCancelled

SpecSnd == InitSnd /\ [][NextSnd]_vars

\* ----------------------------------------------------------- stream: claims
OutgoingOps == {"update_window", "try_send", "ack_recv", "may_loss", "stop",
                "confirm_reset", "poll"}

Edges == {<<"Ready", "Sending">>, <<"Ready", "DataSent">>, <<"DataSent", "DataRecvd">>,
          <<"Sending", "ResetSent">>, <<"DataSent", "ResetSent">>,
          <<"ResetSent", "ResetRecvd">>}

\* C13: every change of the send state made by an operation of Outgoing or
\* by polling IsCancelled follows an edge of the send state machine.
C13_FollowsEdges ==
    [][(snd'.op \in OutgoingOps /\ snd'.kind # snd.kind)
           => <<snd.kind, snd'.kind>> \in Edges]_vars

\* C14: stop never fails; it moves Ready, Sending and DataSent to ResetSent
\* and leaves DataRecvd, ResetSent and ResetRecvd as they are.
C14_StopResets ==
    [][OutStop =>
           /\ snd'.panic = ""
           /\ snd'.kind = IF snd.kind \in {"Ready", "Sending", "DataSent"}
                          THEN "ResetSent" ELSE snd.kind]_vars

\* C15: try_send moves Ready to Sending, or to DataSent when the writer has
\* shut the stream down, keeps Sending and DataSent, and in DataRecvd,
\* ResetSent and ResetRecvd returns None, writes nothing and keeps the state.
C15_TrySend ==
    [][\A c \in 0..MaxCap :
           OutTrySend(c) =>
               /\ snd.kind = "Ready" =>
                      snd'.kind = IF snd.shutdown THEN "DataSent" ELSE "Sending"
               /\ snd.kind \in {"Sending", "DataSent"} => snd'.kind = snd.kind
               /\ snd.kind \in {"DataRecvd", "ResetSent", "ResetRecvd"} =>
                      /\ snd'.ret = None
                      /\ snd'.put = None
                      /\ snd'.kind = snd.kind
                      /\ snd'.colors = snd.colors
                      /\ snd'.max_data = snd.max_data]_vars

\* a stream that was ended before its first try_send has sent its last byte
C15_Witness ==
    /\ snd.op = "try_send"
    /\ snd.was = "Ready"
    /\ snd.kind = "DataSent"
    /\ IsSome(snd.ret)
    /\ Unwrap(snd.ret).eos
    /\ Unwrap(snd.ret).offset = 0

\* C16: ack_recv returns true exactly when the stream is in DataSent and all
\* its data is acknowledged once the range is recorded, and the state is then
\* DataRecvd; otherwise it returns false and the state keeps its kind.
C16_AckRecv ==
    [][\A lo \in 0..MaxStreamData, hi \in 0..MaxStreamData :
           OutAckRecv(lo, hi) =>
               LET done == /\ snd.kind = "DataSent"
                           /\ \A i \in 1..Len(snd.colors) :
                                  snd.colors[i] = "A" \/ (i > lo /\ i <= hi)
               IN  /\ snd'.ret = Some(done)
                   /\ snd'.kind = IF done THEN "DataRecvd" ELSE snd.kind]_vars

\* the last acknowledgement of a stream that has sent all its data
C16_Witness ==
    /\ snd.op = "ack_recv"
    /\ snd.was = "DataSent"
    /\ snd.kind = "DataRecvd"
    /\ snd.ret = Some(TRUE)

\* C18: update_window raises the flow-control limit in Ready and in Sending
\* and changes nothing in the other states.
C18_WindowRaised ==
    [][\A m \in 0..MaxStreamData :
           OutUpdateWindow(m) =>
               /\ snd.kind \in {"Ready", "Sending"} =>
                      snd'.max_data = Max2(snd.max_data, m)
               /\ snd.kind \notin {"Ready", "Sending"} =>
                      /\ snd'.kind = snd.kind
                      /\ snd'.colors = snd.colors
                      /\ snd'.max_data = snd.max_data]_vars

\* ------------------------------------------------------- sndbuf: bounds
\* largest max_data_len of a SendBuf
MaxDataLen == 3
\* longest slice handed to SendBuf::write
MaxWrite == 2

\* ---------------------------------------------------------------- sndbuf.rs
\* Color
Pending == "Pending"
Fligting == "Fligting"
Recved == "Recved"
Lost == "Lost"
Color == {Pending, Fligting, Recved, Lost}

\* SkipMap<u64, Color>: a function from its keys to their values
SkipMapNew == << >>
SkipInsert(m, k, v) == [x \in (DOMAIN m) \cup {k} |-> IF x = k THEN v ELSE m[x]]
SkipRemove(m, k) == [x \in (DOMAIN m) \ {k} |-> m[x]]
\* Entry::prev, Entry::next, SkipMap::lower_bound(Included(k)), SkipMap::back
SkipPrev(m, k) ==
    LET below == {x \in DOMAIN m : x < k} IN
    IF below = {} THEN None ELSE Some(SetMax(below))
SkipNext(m, k) ==
    LET above == {x \in DOMAIN m : x > k} IN
    IF above = {} THEN None ELSE Some(CHOOSE x \in above : \A y \in above : x <= y)
SkipLowerBound(m, k) ==
    LET from == {x \in DOMAIN m : x >= k} IN
    IF from = {} THEN None ELSE Some(CHOOSE x \in from : \A y \in from : x <= y)
SkipBack(m) == IF DOMAIN m = {} THEN None ELSE Some(SetMax(DOMAIN m))
\* SkipMap::range(start..end): the keys in ascending order
RECURSIVE Ascending(_)
Ascending(K) ==
    IF K = {} THEN << >>
    ELSE LET k == CHOOSE x \in K : \A y \in K : x <= y IN <<k>> \o Ascending(K \ {k})
SkipRange(m, start, end) == Ascending({x \in DOMAIN m : x >= start /\ x < end})

\* SendBuf::with_capacity
with_capacity(n) ==
    [offset |-> 0, max_data_len |-> n, data |-> << >>, state |-> SkipMapNew,
     panic |-> ""]

\* SendBuf::wrote
wrote(self) ==
    IF IsSome(SkipBack(self.state)) THEN Unwrap(SkipBack(self.state)) ELSE self.offset

\* SendBuf::writeable
writeable(self) == self.max_data_len > wrote(self)

\* the loop of SendBuf::write: the Pending entries before the new one are removed
RECURSIVE WriteMerge(_, _)
WriteMerge(m, prev) ==
    IF IsSome(prev) /\ m[Unwrap(prev)] = Pending
    THEN WriteMerge(SkipRemove(m, Unwrap(prev)), SkipPrev(m, Unwrap(prev)))
    ELSE m

\* [u8]::copy_from_slice through DerefMut of SliceDeque: the two slices must
\* have the same length, and the destination is overwritten
copy_from_slice(dst, src) ==
    IF Len(dst) # Len(src)
    THEN [ok |-> FALSE, data |-> dst]
    ELSE [ok |-> TRUE, data |-> src]

\* SendBuf::write: [self, n]
write(self, data) ==
    IF data = << >>
    THEN [self |-> [self EXCEPT !.panic = "assertion failed: !data.is_empty()"],
          n |-> None]
    ELSE LET before == wrote(self)
             n == Min2(self.max_data_len - before, Len(data))
         IN  IF n > 0
             THEN LET copied == copy_from_slice(self.data, SubSeq(data, 1, n))
                      entry == before + n
                      inserted == SkipInsert(self.state, entry, Pending)
                  IN  IF ~copied.ok
                      THEN [self |-> [self EXCEPT !.panic =
                                "source slice length does not match destination slice length"],
                            n |-> None]
                      ELSE [self |-> [self EXCEPT
                                        !.data = copied.data,
                                        !.state = WriteMerge(inserted,
                                                             SkipPrev(inserted, entry))],
                            n |-> Some(n)]
             ELSE [self |-> self, n |-> Some(n)]

\* the first loop of SendBuf::ack over the entries of the range: [m, pre_color,
\* panicked]
RECURSIVE AckItems(_, _, _)
AckItems(m, items, pre_color) ==
    IF items = << >> THEN [m |-> m, pre_color |-> pre_color, panicked |-> FALSE]
    ELSE LET item == Head(items)
             pre == IF IsSome(pre_color) THEN pre_color ELSE Some(m[item])
         IN  IF m[item] = Pending
             THEN [m |-> m, pre_color |-> pre, panicked |-> TRUE]
             ELSE AckItems(SkipRemove(m, item), Tail(items), pre)

\* the loop of SendBuf::ack that merges with the Recved entries before the range
RECURSIVE AckMergePrev(_, _)
AckMergePrev(m, entry) ==
    IF IsSome(entry) /\ m[Unwrap(entry)] = Recved
    THEN AckMergePrev(SkipRemove(m, Unwrap(entry)), SkipPrev(m, Unwrap(entry)))
    ELSE m

\* the loop of SendBuf::ack that merges with the Recved entries after the range
RECURSIVE AckMergeNext(_, _)
AckMergeNext(m, entry) ==
    LET next == SkipNext(m, entry) IN
    IF IsSome(next) /\ m[Unwrap(next)] = Recved
    THEN AckMergeNext(SkipRemove(m, entry), Unwrap(next))
    ELSE m

\* an ack that colours the bytes before the range like the bytes after it
ack_colors_from_end(self, start, end) ==
    LET removed == AckItems(self.state, SkipRange(self.state, start, end), None)
        bound == SkipLowerBound(removed.m, end)
    IN  IF removed.panicked
        THEN [self EXCEPT !.state = removed.m,
                          !.panic = "must not be acked before sending"]
        ELSE IF ~IsSome(removed.pre_color) /\ ~IsSome(bound)
        THEN [self EXCEPT !.state = removed.m,
                          !.panic = "called Option::unwrap on a None value"]
        ELSE LET color == IF IsSome(bound) THEN removed.m[Unwrap(bound)]
                          ELSE Unwrap(removed.pre_color)
                 started == SkipInsert(removed.m, start, color)
                 merged == AckMergePrev(started, Some(start))
                 ended == SkipInsert(merged, end, Recved)
             IN  [self EXCEPT !.state = AckMergeNext(ended, end)]

\* SendBuf::ack
ack(self, start, end) ==
    LET removed == AckItems(self.state, SkipRange(self.state, start, end), None)
        bound == SkipLowerBound(removed.m, end)
    IN  IF removed.panicked
        THEN [self EXCEPT !.state = removed.m,
                          !.panic = "must not be acked before sending"]
        ELSE IF ~IsSome(removed.pre_color) /\ ~IsSome(bound)
        THEN [self EXCEPT !.state = removed.m,
                          !.panic = "called Option::unwrap on a None value"]
        ELSE LET color == IF IsSome(removed.pre_color) THEN Unwrap(removed.pre_color)
                          ELSE removed.m[Unwrap(bound)]
                 started == SkipInsert(removed.m, start, color)
                 merged == AckMergePrev(started, Some(start))
                 ended == SkipInsert(merged, end, Recved)
             IN  [self EXCEPT !.state = AckMergeNext(ended, end)]

\* ------------------------------------------------------- sndbuf: actions
\* the controller, the spaces and the stream sender are not built
BaseIdle ==
    /\ cc = NewController
    /\ last = NoCall
    /\ clock = 0
    /\ ghost = GhostInit
    /\ tx = Absent
    /\ sp = Absent
    /\ txlast = TxIdle
    /\ snd = << >>
    /\ env = << >>

\* the run of colour c[i] ends at key i: no two adjacent runs are both
\* Pending or both Recved
Canonical(m) ==
    \A k \in DOMAIN m :
        /\ k > IF IsSome(SkipPrev(m, k)) THEN Unwrap(SkipPrev(m, k)) ELSE 0
        /\ IsSome(SkipPrev(m, k)) =>
               ~(m[k] = m[Unwrap(SkipPrev(m, k))] /\ m[k] \in {Pending, Recved})

\* the colour maps of w written bytes
ColorMaps(w) ==
    IF w = 0 THEN {SkipMapNew}
    ELSE {m \in UNION {[K -> Color] : K \in {K \in SUBSET (1..w) : w \in K}} :
              Canonical(m)}

BufIdle == [op |-> "new", data |-> << >>, start |-> 0, end |-> 0, n |-> None,
            before |-> << >>, prev |-> "new"]

\* SendBuf::emit is todo!(), so no operation colours a byte Fligting or Lost:
\* the buffer starts with any canonical colour map of its written bytes, and
\* with the data with_capacity gives it
InitBuf ==
    /\ BaseIdle
    /\ RegIdle
    /\ reader = << >>
    /\ recv = << >>
    /\ lastcall = BufIdle
    /\ \E n \in 1..MaxDataLen :
           \E w \in 0..n :
               \E m \in ColorMaps(w) :
                   sendbuf = [with_capacity(n) EXCEPT !.state = m]

BufWrite(data) ==
    /\ sendbuf.panic = ""
    /\ sendbuf' = write(sendbuf, data).self
    /\ lastcall' = [BufIdle EXCEPT !.op = "write", !.data = data,
                                   !.n = write(sendbuf, data).n,
                                   !.before = sendbuf, !.prev = lastcall.op]
    /\ UNCHANGED <<basevars, regvars, reader, recv>>

BufAck(start, end) ==
    /\ sendbuf.panic = ""
    /\ sendbuf.offset <= start /\ start < end /\ end <= wrote(sendbuf)
    /\ sendbuf' = ack(sendbuf, start, end)
    /\ lastcall' = [BufIdle EXCEPT !.op = "ack", !.start = start, !.end = end,
                                   !.before = sendbuf, !.prev = lastcall.op]
    /\ UNCHANGED <<basevars, regvars, reader, recv>>

\* the slices of at most MaxWrite bytes
Slices == UNION {[1..len -> {0, 1}] : len \in 1..MaxWrite}

NextBuf ==
    \/ \E data \in Slices : BufWrite(data)
    \/ \E start \in 0..MaxDataLen, end \in 0..MaxDataLen : BufAck(start, end)

SpecBuf == InitBuf /\ [][NextBuf]_vars

\* -------------------------------------------------------- sndbuf: claims
\* the colour of byte b: that of the first entry whose key is above b
ColorAt(m, b) == m[Unwrap(SkipLowerBound(m, b + 1))]

\* the bytes the write is to accept
Accepted(self, data) == Min2(Len(data), self.max_data_len - wrote(self))

\* C22: write accepts and returns n = min(len, max_data_len - wrote) bytes,
\* wrote grows by n and is not changed by ack, so wrote <= max_data_len, and
\* writeable is true exactly when wrote < max_data_len.
C22_WroteBounded ==
    /\ wrote(sendbuf) <= sendbuf.max_data_len
    /\ writeable(sendbuf) <=> wrote(sendbuf) < sendbuf.max_data_len
    /\ lastcall.op = "ack" /\ sendbuf.panic = ""
           => wrote(sendbuf) = wrote(lastcall.before)
    /\ lastcall.op = "write" =>
           /\ lastcall.n = Some(Accepted(lastcall.before, lastcall.data))
           /\ wrote(sendbuf) = wrote(lastcall.before)
                                   + Accepted(lastcall.before, lastcall.data)

\* C23: a write that accepts n > 0 bytes completes and appends the first n
\* bytes of its input to the data, whatever the buffer holds.
C23_WriteAppends ==
    (lastcall.op = "write" /\ Accepted(lastcall.before, lastcall.data) > 0) =>
        /\ sendbuf.panic = ""
        /\ sendbuf.data = lastcall.before.data
               \o SubSeq(lastcall.data, 1, Accepted(lastcall.before, lastcall.data))

Ranges(self) ==
    {r \in (0..MaxDataLen) \X (0..MaxDataLen) :
        self.offset <= r[1] /\ r[1] < r[2] /\ r[2] <= wrote(self)}

Colours(self) == [b \in 0..(wrote(self) - 1) |-> ColorAt(self.state, b)]

Ack2(self, r1, r2) == ack(ack(self, r1[1], r1[2]), r2[1], r2[2])

MaxFramesRd == 2
MaxTail == 2
MaxNone == 2

\* ----------------------------------------------------------- frame.rs
\* be_varint: the two high bits of the first byte give the length 1, 2, 4
\* or 8 of the integer, the other bits are its value in network byte order
RECURSIVE VarIntValue(_, _)
VarIntValue(bytes, acc) ==
    IF bytes = << >> THEN acc ELSE VarIntValue(Tail(bytes), acc * 256 + Head(bytes))

be_varint(input) ==
    IF input = << >>
    THEN [ok |-> FALSE, value |-> 0, len |-> 0]
    ELSE LET len == 2 ^ (Head(input) \div 64) IN
         IF Len(input) < len
         THEN [ok |-> FALSE, value |-> 0, len |-> 0]
         ELSE [ok |-> TRUE,
               value |-> VarIntValue(SubSeq(input, 2, len), Head(input) % 64),
               len |-> len]

\* the encoding of a value below 64
put_varint(value) == <<value>>

\* the frames of the model: Padding, Ping, MaxData and Crypto
FramePadding == [kind |-> "Padding", value |-> 0, data |-> << >>]
FramePing == [kind |-> "Ping", value |-> 0, data |-> << >>]
FrameMaxData(max_data) == [kind |-> "MaxData", value |-> max_data, data |-> << >>]
FrameCrypto(offset, data) == [kind |-> "Crypto", value |-> offset, data |-> data]
FrameNone == [kind |-> "", value |-> 0, data |-> << >>]

\* FrameType::try_from(VarInt)
FrameTypeTryFrom(fty) ==
    CASE fty = 0 -> Some("Padding")
      [] fty = 1 -> Some("Ping")
      [] fty \in {2, 3} -> Some("Ack")
      [] fty = 4 -> Some("ResetStream")
      [] fty = 5 -> Some("StopSending")
      [] fty = 6 -> Some("Crypto")
      [] fty = 7 -> Some("NewToken")
      [] fty \in 8..15 -> Some("Stream")
      [] fty = 16 -> Some("MaxData")
      [] fty = 17 -> Some("MaxStreamData")
      [] fty \in {18, 19} -> Some("MaxStreams")
      [] fty = 20 -> Some("DataBlocked")
      [] fty = 21 -> Some("StreamDataBlocked")
      [] fty \in {22, 23} -> Some("StreamsBlocked")
      [] fty = 24 -> Some("NewConnectionId")
      [] fty = 25 -> Some("RetireConnectionId")
      [] fty = 26 -> Some("PathChallenge")
      [] fty = 27 -> Some("PathResponse")
      [] fty \in {28, 29} -> Some("ConnectionClose")
      [] fty = 30 -> Some("HandshakeDone")
      [] OTHER -> None

ParseOk(frame, remain) == [res |-> "Ok", frame |-> frame, remain |-> remain, err |-> ""]
ParseErr(err) == [res |-> "Err", frame |-> FrameNone, remain |-> 0, err |-> err]

\* be_max_data_frame: one varint
be_max_data_frame(input) ==
    LET max_data == be_varint(input) IN
    IF max_data.ok
    THEN ParseOk(FrameMaxData(max_data.value), Len(input) - max_data.len)
    ELSE ParseErr("Incomplete")

\* be_crypto_frame (offset and length) and the data that complete_frame
\* slices out of the buffer
be_crypto_frame(input) ==
    LET offset == be_varint(input)
        after == SubSeq(input, offset.len + 1, Len(input))
        length == be_varint(after)
        rest == SubSeq(after, length.len + 1, Len(after))
    IN  IF ~offset.ok \/ ~length.ok THEN ParseErr("Incomplete")
        ELSE IF Len(rest) < length.value THEN ParseErr("Incomplete")
        ELSE ParseOk(FrameCrypto(offset.value, SubSeq(rest, 1, length.value)),
                     Len(rest) - length.value)

\* complete_frame, for the frame types whose bytes the model draws
complete_frame(frame_type, input) ==
    CASE frame_type = "Padding" -> ParseOk(FramePadding, Len(input))
      [] frame_type = "Ping" -> ParseOk(FramePing, Len(input))
      [] frame_type = "MaxData" -> be_max_data_frame(input)
      [] frame_type = "Crypto" -> be_crypto_frame(input)

\* ext::be_frame: the bytes consumed and the frame, or the error
be_frame(bytes) ==
    LET fty == be_varint(bytes) IN
    IF ~fty.ok THEN [ParseErr("IncompleteType") EXCEPT !.remain = Len(bytes)]
    ELSE LET frame_type == FrameTypeTryFrom(fty.value) IN
         IF ~IsSome(frame_type)
         THEN [ParseErr("InvalidType") EXCEPT !.remain = Len(bytes)]
         ELSE LET parsed == complete_frame(Unwrap(frame_type),
                                           SubSeq(bytes, fty.len + 1, Len(bytes)))
              IN  IF parsed.res = "Err"
                  THEN [ParseErr("IncompleteFrame") EXCEPT !.remain = Len(bytes)]
                  ELSE [parsed EXCEPT !.remain = Len(bytes) - parsed.remain]

\* FrameReader::new
FrameReaderNew(bytes) == [raw |-> bytes]

\* a reader that keeps its bytes when a frame fails to parse
FrameReaderNextKeepsRaw(self) ==
    IF self.raw = << >>
    THEN [self |-> self, item |-> None]
    ELSE LET parsed == be_frame(self.raw) IN
         IF parsed.res = "Ok"
         THEN [self |-> [self EXCEPT !.raw = SubSeq(@, parsed.remain + 1, Len(@))],
               item |-> Some(parsed)]
         ELSE [self |-> self, item |-> Some(parsed)]

\* FrameReader::next; remain of an Ok item holds the bytes consumed
FrameReaderNext(self) ==
    IF self.raw = << >>
    THEN [self |-> self, item |-> None]
    ELSE LET parsed == be_frame(self.raw) IN
         IF parsed.res = "Ok"
         THEN [self |-> [self EXCEPT !.raw = SubSeq(@, parsed.remain + 1, Len(@))],
               item |-> Some(parsed)]
         ELSE [self |-> [self EXCEPT !.raw = << >>], item |-> Some(parsed)]

\* the encoding of a frame (put_*_frame)
EncodeFrame(frame) ==
    CASE frame.kind = "Padding" -> put_varint(0)
      [] frame.kind = "Ping" -> put_varint(1)
      [] frame.kind = "MaxData" -> put_varint(16) \o put_varint(frame.value)
      [] frame.kind = "Crypto" ->
             put_varint(6) \o put_varint(frame.value)
                 \o put_varint(Len(frame.data)) \o frame.data

RECURSIVE EncodeFrames(_)
EncodeFrames(frames) ==
    IF frames = << >> THEN << >>
    ELSE EncodeFrame(Head(frames)) \o EncodeFrames(Tail(frames))

\* ------------------------------------------------------- frame: actions
\* the frames written into a packet, and the bytes that may follow them:
\* Padding, Ping, Crypto, MaxData, an unknown type, a two-byte varint
WireFrames == {FramePadding, FramePing, FrameMaxData(1),
               FrameCrypto(0, << >>), FrameCrypto(1, <<1>>)}
WireBytes == {0, 1, 6, 16, 31, 64}

SeqsUpTo(S, n) == UNION {[1..len -> S] : len \in 0..n}

\* sent: the frames encoded at the head of the buffer; calls: for every call
\* of next, the bytes held before it and what it returned
InitFr ==
    /\ BaseIdle
    /\ RegIdle
    /\ sendbuf = << >>
    /\ recv = << >>
    /\ lastcall = << >>
    /\ \E frames \in SeqsUpTo(WireFrames, MaxFramesRd) :
           \E tail \in SeqsUpTo(WireBytes, MaxTail) :
               reader = [self |-> FrameReaderNew(EncodeFrames(frames) \o tail),
                         sent |-> frames,
                         calls |-> << >>,
                         nones |-> 0]

ReaderNext ==
    /\ reader.nones < MaxNone
    /\ reader' = [reader EXCEPT
                      !.self = FrameReaderNext(reader.self).self,
                      !.calls = Append(@, [before |-> reader.self.raw,
                                           item |-> FrameReaderNext(reader.self).item]),
                      !.nones = IF IsSome(FrameReaderNext(reader.self).item)
                                THEN @ ELSE @ + 1]
    /\ UNCHANGED <<basevars, regvars, sendbuf, recv, lastcall>>

NextFr == ReaderNext

SpecFr == InitFr /\ [][NextFr]_vars

\* -------------------------------------------------------- frame: claims
IsOk(call) == IsSome(call.item) /\ Unwrap(call.item).res = "Ok"
IsErr(call) == IsSome(call.item) /\ Unwrap(call.item).res = "Err"

\* C27: the reader yields the frames of the buffer in order, each consuming
\* at least one byte; it returns None exactly when no byte is left; after the
\* first error no byte is left and every later call returns None.
C27_ReaderYields ==
    /\ \A i \in 1..Len(reader.calls) :
           /\ IsSome(reader.calls[i].item) <=> reader.calls[i].before # << >>
           /\ IsOk(reader.calls[i]) => Unwrap(reader.calls[i].item).remain >= 1
           /\ i <= Len(reader.sent) =>
                  /\ IsOk(reader.calls[i])
                  /\ Unwrap(reader.calls[i].item).frame = reader.sent[i]
           /\ IsErr(reader.calls[i]) =>
                  \A j \in (i + 1)..Len(reader.calls) : ~IsSome(reader.calls[j].item)
    /\ (reader.calls # << >> /\ IsErr(reader.calls[Len(reader.calls)]))
           => reader.self.raw = << >>

\* two frames are yielded, the truncated third gives an error, then None
C27_Witness ==
    /\ Len(reader.calls) = 4
    /\ Len(reader.sent) = 2
    /\ IsOk(reader.calls[2])
    /\ IsErr(reader.calls[3])
    /\ ~IsSome(reader.calls[4].item)

\* --------------------------------------------------------- recv: bounds
MaxRecv == 3

\* ------------------------------------------------------ recv/reader.rs
RecvStates == {"Recv", "SizeKnown", "DataRecvd", "DataRead", "ResetRecvd",
               "ResetRead", "Err"}

\* the receiver behind a new Reader: rcvd bytes arrived, read of them were
\* handed to the application, final_size is known after the FIN
ReaderNew == [state |-> "Recv", rcvd |-> 0, read |-> 0, final_size |-> None,
              aborted |-> FALSE, dropped |-> FALSE, op |-> "new", was |-> "Recv"]

\* RecvingRecver::abort: the receiver is marked as aborted
abort(self) == [self EXCEPT !.aborted = TRUE]

\* RecvingRecver::poll_read and DataRecvdRecver::poll_read: the bytes
\* that arrived are handed to the application
RecverPollRead(self) == [self EXCEPT !.read = self.rcvd]

is_all_read(self) == self.read = Unwrap(self.final_size)

\* Reader::poll_read
reader_poll_read(self) ==
    CASE self.state \in {"Recv", "SizeKnown"} -> RecverPollRead(self)
      [] self.state = "DataRecvd" ->
             IF is_all_read(RecverPollRead(self))
             THEN [RecverPollRead(self) EXCEPT !.state = "DataRead"]
             ELSE RecverPollRead(self)
      [] self.state = "DataRead" -> self
      [] self.state = "ResetRecvd" -> [self EXCEPT !.state = "ResetRead"]
      [] self.state = "ResetRead" -> self
      [] self.state = "Err" -> self

\* Drop for Reader
reader_drop(self) ==
    CASE self.state = "Recv" -> [abort(self) EXCEPT !.dropped = TRUE]
      [] self.state = "SizeKnown" -> [abort(self) EXCEPT !.dropped = TRUE]
      [] OTHER -> [self EXCEPT !.dropped = TRUE]

\* the peer's STREAM frames, RESET_STREAM frame and a connection error
recv_stream(self) ==
    LET rcvd == [self EXCEPT !.rcvd = @ + 1] IN
    IF rcvd.state = "SizeKnown" /\ rcvd.rcvd = Unwrap(rcvd.final_size)
    THEN [rcvd EXCEPT !.state = "DataRecvd"]
    ELSE rcvd

\* the frame with the FIN bit fixes the final size
recv_fin(self, final_size) ==
    [self EXCEPT !.final_size = Some(final_size),
                 !.state = IF self.rcvd = final_size THEN "DataRecvd"
                           ELSE "SizeKnown"]

recv_reset(self) == [self EXCEPT !.state = "ResetRecvd"]

on_conn_error(self) == [self EXCEPT !.state = "Err"]

\* -------------------------------------------------------- recv: actions
InitRv ==
    /\ BaseIdle
    /\ RegIdle
    /\ sendbuf = << >>
    /\ reader = << >>
    /\ lastcall = << >>
    /\ recv = ReaderNew

RvCall(self, op) == [self EXCEPT !.op = op, !.was = recv.state]

ReaderPollRead ==
    /\ ~recv.dropped
    /\ recv' = RvCall(reader_poll_read(recv), "poll_read")
    /\ UNCHANGED <<basevars, regvars, sendbuf, reader, lastcall>>

ReaderDrop ==
    /\ ~recv.dropped
    /\ recv' = RvCall(reader_drop(recv), "drop")
    /\ UNCHANGED <<basevars, regvars, sendbuf, reader, lastcall>>

IncomingRecvStream ==
    /\ recv.state \in {"Recv", "SizeKnown"}
    /\ recv.rcvd < IF IsSome(recv.final_size) THEN Unwrap(recv.final_size)
                   ELSE MaxRecv
    /\ recv' = RvCall(recv_stream(recv), "recv_stream")
    /\ UNCHANGED <<basevars, regvars, sendbuf, reader, lastcall>>

IncomingRecvFin(final_size) ==
    /\ recv.state = "Recv"
    /\ recv.rcvd <= final_size
    /\ recv' = RvCall(recv_fin(recv, final_size), "recv_fin")
    /\ UNCHANGED <<basevars, regvars, sendbuf, reader, lastcall>>

IncomingRecvReset ==
    /\ recv.state \in {"Recv", "SizeKnown"}
    /\ recv' = RvCall(recv_reset(recv), "recv_reset")
    /\ UNCHANGED <<basevars, regvars, sendbuf, reader, lastcall>>

IncomingOnConnError ==
    /\ recv.state # "Err"
    /\ recv' = RvCall(on_conn_error(recv), "on_conn_error")
    /\ UNCHANGED <<basevars, regvars, sendbuf, reader, lastcall>>

NextRv ==
    \/ ReaderPollRead
    \/ ReaderDrop
    \/ IncomingRecvStream
    \/ \E final_size \in 0..MaxRecv : IncomingRecvFin(final_size)
    \/ IncomingRecvReset
    \/ IncomingOnConnError

SpecRv == InitRv /\ [][NextRv]_vars

\* --------------------------------------------------------- recv: claims
\* C30: dropping the Reader in Recv or SizeKnown moves the receive state to
\* ResetRead; dropping it in any other state leaves the state unchanged.
C30_DropResets ==
    recv.op = "drop" =>
        recv.state = IF recv.was \in {"Recv", "SizeKnown"} THEN "ResetRead"
                     ELSE recv.was

\* ------------------------------------------------------- header: bounds
MaxToken == 2
MaxCid == 1

\* ------------------------------------------------- packet/header/long.rs
\* the integrity tag of a Retry packet is [u8; 16]
IntegrityLen == 16

\* Retry::from_slice
from_slice(token_bytes, integrity_bytes) ==
    [token |-> token_bytes, integrity |-> integrity_bytes]

\* nom take(n): the remaining input and the n bytes taken from its front
take(n, input) ==
    [remain |-> SubSeq(input, n + 1, Len(input)), taken |-> SubSeq(input, 1, n)]

\* ext::be_retry
be_retry(input) ==
    IF Len(input) < IntegrityLen
    THEN [ok |-> FALSE, retry |-> from_slice(<< >>, << >>)]
    ELSE LET token_length == Len(input) - IntegrityLen
             split == take(token_length, input)
         IN  [ok |-> TRUE, retry |-> from_slice(split.taken, split.remain)]

\* Write<Retry>::put_specific
put_specific(buf, specific) == (buf \o specific.integrity) \o specific.token

\* put_connection_id and be_connection_id: one length byte, then the bytes
put_connection_id(buf, cid) == (buf \o <<Len(cid)>>) \o cid

be_connection_id(input) ==
    [cid |-> SubSeq(input, 2, 1 + Head(input)),
     remain |-> SubSeq(input, 2 + Head(input), Len(input))]

\* LongHeaderBuilder::wrap
LongHeader(dcid, scid, specific) == [dcid |-> dcid, scid |-> scid, specific |-> specific]

\* WriteLongHeader::put_long_header
put_long_header(buf, long_header) ==
    put_specific(put_connection_id(put_connection_id(buf, long_header.dcid),
                                   long_header.scid),
                 long_header.specific)

\* the connection ids, then LongHeaderBuilder::parse of a Retry packet
parse_retry(input) ==
    LET dcid == be_connection_id(input)
        scid == be_connection_id(dcid.remain)
        retry == be_retry(scid.remain)
    IN  [ok |-> retry.ok, header |-> LongHeader(dcid.cid, scid.cid, retry.retry)]

\* ------------------------------------------------------ header: actions
\* the integrity tags drawn: k bytes 1 followed by bytes 0
Tag(k) == [i \in 1..IntegrityLen |-> IF i <= k THEN 1 ELSE 0]
Tags == {Tag(k) : k \in {0, 1, IntegrityLen - 1, IntegrityLen}}

HdrIdle == [op |-> "new", header |-> LongHeader(<< >>, << >>, from_slice(<< >>, Tag(0))),
            buf |-> << >>, ok |-> FALSE,
            parsed |-> LongHeader(<< >>, << >>, from_slice(<< >>, << >>))]

InitHdr ==
    /\ BaseIdle
    /\ RegIdle
    /\ sendbuf = << >>
    /\ reader = << >>
    /\ recv = << >>
    /\ \E dcid \in SeqsUpTo({7}, MaxCid), scid \in SeqsUpTo({9}, MaxCid) :
           \E token_bytes \in SeqsUpTo({0, 1}, MaxToken), integrity_bytes \in Tags :
               lastcall = [HdrIdle EXCEPT
                               !.header = LongHeader(dcid, scid,
                                              from_slice(token_bytes, integrity_bytes))]

HdrPutLongHeader ==
    /\ lastcall.op = "new"
    /\ lastcall' = [lastcall EXCEPT !.op = "put_long_header",
                                    !.buf = put_long_header(<< >>, lastcall.header)]
    /\ UNCHANGED <<basevars, regvars, sendbuf, reader, recv>>

HdrParse ==
    /\ lastcall.op = "put_long_header"
    /\ lastcall' = [lastcall EXCEPT !.op = "parse",
                                    !.ok = parse_retry(lastcall.buf).ok,
                                    !.parsed = parse_retry(lastcall.buf).header]
    /\ UNCHANGED <<basevars, regvars, sendbuf, reader, recv>>

NextHdr ==
    \/ HdrPutLongHeader
    \/ HdrParse

SpecHdr == InitHdr /\ [][NextHdr]_vars

\* ------------------------------------------------------- header: claims
\* C29: a Retry header that is written and parsed back has the same token and
\* the same integrity tag; the written bytes end with the 16 bytes of the tag,
\* and the token comes before it.
C29_RetryRoundTrip ==
    lastcall.op = "parse" =>
        LET specific == lastcall.header.specific
            total == Len(lastcall.buf)
        IN  /\ lastcall.ok
            /\ lastcall.parsed.specific.token = specific.token
            /\ lastcall.parsed.specific.integrity = specific.integrity
            /\ lastcall.parsed.dcid = lastcall.header.dcid
            /\ lastcall.parsed.scid = lastcall.header.scid
            /\ SubSeq(lastcall.buf, total - IntegrityLen + 1, total) = specific.integrity
            /\ SubSeq(lastcall.buf, total - IntegrityLen - Len(specific.token) + 1,
                      total - IntegrityLen) = specific.token

\* -------------------------------------------------- admissibility: bounds
MaxFrameValue == 2

\* ------------------------------------------------- frame.rs: frame sets
\* InfoFrame and StreamInfoFrame: the kind of the frame and one of its fields
InfoFrameKinds == {"Ping", "NewToken", "MaxData", "DataBlocked", "NewConnectionId",
                   "RetireConnectionId", "PathChallenge", "PathResponse",
                   "HandshakeDone"}
StreamInfoFrameKinds == {"ResetStream", "StopSending", "MaxStreamData", "MaxStreams",
                         "StreamDataBlocked", "StreamsBlocked"}

InfoFrame(kind, value) == [kind |-> kind, value |-> value]

InfoFrames ==
    {InfoFrame(kind, 0) : kind \in {"Ping", "HandshakeDone"}}
        \cup {InfoFrame(kind, value) :
                  kind \in (InfoFrameKinds \cup StreamInfoFrameKinds)
                               \ {"Ping", "HandshakeDone"},
                  value \in 0..MaxFrameValue}

\* BeFrame::frame_type
frame_type(value) == value.kind

ConvertOk(value) == [ok |-> TRUE, frame |-> value, wrong |-> "", context |-> ""]
WrongFrame(ft, context) ==
    [ok |-> FALSE, frame |-> InfoFrame("", 0), wrong |-> ft, context |-> context]

\* TryFrom<InfoFrame> for NoFrame
NoFrameTryFrom(value) == WrongFrame(frame_type(value), "Initial or Handshake")

\* TryFrom<InfoFrame> for ZeroRttFrame
ZeroRttFrameTryFrom(value) ==
    IF value.kind \in {"Ping", "MaxData", "DataBlocked", "NewConnectionId",
                       "RetireConnectionId", "PathChallenge"}
           \cup StreamInfoFrameKinds
    THEN ConvertOk(value)
    ELSE WrongFrame(frame_type(value), "Zero rtt data")

\* the frame set of a packet type: NoFrame, ZeroRttFrame, OneRttFrame
PacketTypes == {"Initial", "Handshake", "ZeroRtt", "OneRtt"}

InfoFrameInto(packet, value) ==
    CASE packet \in {"Initial", "Handshake"} -> NoFrameTryFrom(value)
      [] packet = "ZeroRtt" -> ZeroRttFrameTryFrom(value)
      [] packet = "OneRtt" -> ConvertOk(value)

\* ------------------------------------------------ admissibility: actions
InitAdm ==
    /\ BaseIdle
    /\ RegIdle
    /\ sendbuf = << >>
    /\ reader = << >>
    /\ recv = << >>
    /\ \E packet \in PacketTypes, value \in InfoFrames :
           lastcall = [op |-> "parsed", packet |-> packet, info |-> value,
                       result |-> WrongFrame("", "")]

AdmTryFrom ==
    /\ lastcall.op = "parsed"
    /\ lastcall' = [lastcall EXCEPT
                        !.op = "try_from",
                        !.result = InfoFrameInto(lastcall.packet, lastcall.info)]
    /\ UNCHANGED <<basevars, regvars, sendbuf, reader, recv>>

NextAdm == AdmTryFrom

SpecAdm == InitAdm /\ [][NextAdm]_vars

\* ------------------------------------------------- admissibility: claims
\* C28: in an Initial or Handshake packet the conversion of a parsed Info
\* frame accepts Ping and rejects every other Info frame with WrongFrame
\* naming the type of the frame.
C28_OnlyPingAdmitted ==
    (lastcall.op = "try_from" /\ lastcall.packet \in {"Initial", "Handshake"}) =>
        IF lastcall.info.kind = "Ping"
        THEN lastcall.result.ok
        ELSE /\ ~lastcall.result.ok
             /\ lastcall.result.wrong = lastcall.info.kind

\* ------------------------------------------ connection ID registry: bounds
\* quix/src/quic/cid_registry.rs. A connection ID is a sequence of bytes, a
\* reset token a number.
\* the sequence numbers the host issues and the connection ID limits the
\* peer announces
MaxScidSeq == 3
MaxConnIdLimit == 3

\* -------------------------------------------------- cid_registry.rs: CidQueue
IdLimit == "IdLimit"
OutOfIdentifiers == "OutOfIdentifiers"
InvalidState == "InvalidState"
InvalidFrame == "InvalidFrame"

ConnectionIdEntry(cid, seq, reset_token, path_id) ==
    [cid |-> cid, seq |-> seq, reset_token |-> reset_token, path_id |-> path_id]

\* Result<T, CidError> together with the object after the call
CidOk(self, value) == [ok |-> TRUE, value |-> value, err |-> "", self |-> self]
CidErr(self, err) == [ok |-> FALSE, value |-> None, err |-> err, self |-> self]

CidQueueNew(capacity, initial_entry) == [inner |-> <<initial_entry>>, capacity |-> capacity]

\* the positions of the entries with the sequence number seq
CidQueuePositions(self, seq) == {i \in 1..Len(self.inner) : self.inner[i].seq = seq}

CidQueueSeqs(self) == {self.inner[i].seq : i \in 1..Len(self.inner)}

CidQueueResize(self, new_capacity) ==
    IF new_capacity > self.capacity THEN [self EXCEPT !.capacity = new_capacity] ELSE self

\* CidQueue::insert: an entry of the same sequence number is replaced in
\* place; otherwise the entry is appended unless the queue is at capacity
CidQueueInsert(self, e) ==
    LET at == CidQueuePositions(self, e.seq)
    IN  IF at # {}
        THEN CidOk([self EXCEPT !.inner[CHOOSE i \in at : \A j \in at : i <= j] = e], None)
        ELSE IF Len(self.inner) = self.capacity
        THEN CidErr(self, IdLimit)
        ELSE CidOk([self EXCEPT !.inner = Append(@, e)], None)

\* CidQueue::remove: the last entry is never removed; the value is the
\* removed entry, if one has the sequence number
CidQueueRemove(self, seq) ==
    LET at == CidQueuePositions(self, seq)
    IN  IF Len(self.inner) <= 1
        THEN CidErr(self, OutOfIdentifiers)
        ELSE IF at = {}
        THEN CidOk(self, None)
        ELSE LET index == CHOOSE i \in at : \A j \in at : i <= j
             IN  CidOk([self EXCEPT !.inner = RemoveAt(@, index)], Some(self.inner[index]))

\* CidQueue::remove_lower_than_and_insert: value is the removed entries, in
\* queue order, as the callback sees them
remove_lower_than_and_insert(self, seq, e) ==
    IF e.seq < seq
    THEN CidErr(self, InvalidState)
    ELSE LET low(x) == x.seq < seq
             keep(x) == ~low(x)
             kept == [self EXCEPT !.inner = SelectSeq(@, keep)]
             ins == CidQueueInsert(kept, e)
         IN  [ins EXCEPT !.value = SelectSeq(self.inner, low)]

\* ------------------------------- cid_registry.rs: SourceConnectionIdentifiers
SourceNew(initial_scid, initial_path_id, reset_token) ==
    [cids |-> CidQueueNew(2 * 2 - 1,
                  ConnectionIdEntry(initial_scid, 0, reset_token, Some(initial_path_id))),
     advertise_new_cid_seqs |-> << >>,
     retired_cids |-> << >>,
     next_cid_seq |-> 1,
     retire_prior_to |-> 0,
     source_conn_id_limit |-> 2,
     zero_length_cid |-> initial_scid = << >>]

set_conn_id_limit(self, v) ==
    IF v >= 2
    THEN [self EXCEPT !.source_conn_id_limit = v,
                      !.cids = CidQueueResize(@, 2 * v - 1)]
    ELSE self

lowest_usable_cid_seq(self) ==
    LET usable == {x \in CidQueueSeqs(self.cids) : x >= self.retire_prior_to}
    IN  IF usable = {}
        THEN CidErr(self, InvalidState)
        ELSE CidOk(self, CHOOSE x \in usable : \A y \in usable : x <= y)

mark_advertise_new_cid_seq(self, scid_seq, advertise) ==
    LET q == self.advertise_new_cid_seqs
        at == {i \in 1..Len(q) : q[i] = scid_seq}
    IN  IF advertise
        THEN [self EXCEPT !.advertise_new_cid_seqs = Append(@, scid_seq)]
        ELSE IF at # {}
        THEN [self EXCEPT !.advertise_new_cid_seqs =
                              RemoveAt(@, CHOOSE i \in at : \A j \in at : i <= j)]
        ELSE self

\* the first entry of the queue with the connection ID cid
FindCid(self, cid) ==
    LET at == {i \in 1..Len(self.cids.inner) : self.cids.inner[i].cid = cid}
    IN  IF at = {} THEN None
        ELSE Some(self.cids.inner[CHOOSE i \in at : \A j \in at : i <= j])

\* new_cid with the limit check retiring nothing: retire_prior_to is left
\* as it was
new_cid_keeps_retire_prior_to(self, cid, reset_token, advertise, path_id, retire_if_needed) ==
    LET over == Len(self.cids.inner) >= self.source_conn_id_limit
        lowest == lowest_usable_cid_seq(self)
        seq == self.next_cid_seq
        found == FindCid(self, cid)
        ins == CidQueueInsert(self.cids, ConnectionIdEntry(cid, seq, reset_token, path_id))
    IN  IF self.zero_length_cid THEN CidErr(self, InvalidState)
        ELSE IF over /\ ~retire_if_needed THEN CidErr(self, IdLimit)
        ELSE IF over /\ ~lowest.ok THEN CidErr(self, lowest.err)
        ELSE IF reset_token = None /\ seq # 0 THEN CidErr(self, InvalidState)
        ELSE IF IsSome(found)
        THEN IF Unwrap(found).reset_token # reset_token
             THEN CidErr(self, InvalidState)
             ELSE CidOk(self, Some(Unwrap(found).seq))
        ELSE IF ~ins.ok THEN CidErr(self, ins.err)
        ELSE CidOk(mark_advertise_new_cid_seq(
                       [self EXCEPT !.cids = ins.self, !.next_cid_seq = @ + 1],
                       seq, advertise),
                   Some(seq))

\* SourceConnectionIdentifiers::new_cid. retire_prior_to is assigned at the
\* limit check, before the checks that follow it.
new_cid(self, cid, reset_token, advertise, path_id, retire_if_needed) ==
    LET over == Len(self.cids.inner) >= self.source_conn_id_limit
        lowest == lowest_usable_cid_seq(self)
        retired == IF over /\ lowest.ok
                   THEN [self EXCEPT !.retire_prior_to = lowest.value + 1]
                   ELSE self
        seq == retired.next_cid_seq
        found == FindCid(retired, cid)
        ins == CidQueueInsert(retired.cids, ConnectionIdEntry(cid, seq, reset_token, path_id))
    IN  IF self.zero_length_cid THEN CidErr(self, InvalidState)
        ELSE IF over /\ ~retire_if_needed THEN CidErr(self, IdLimit)
        ELSE IF over /\ ~lowest.ok THEN CidErr(self, lowest.err)
        ELSE IF reset_token = None /\ seq # 0 THEN CidErr(retired, InvalidState)
        ELSE IF IsSome(found)
        THEN IF Unwrap(found).reset_token # reset_token
             THEN CidErr(retired, InvalidState)
             ELSE CidOk(retired, Some(Unwrap(found).seq))
        ELSE IF ~ins.ok THEN CidErr(retired, ins.err)
        ELSE CidOk(mark_advertise_new_cid_seq(
                       [retired EXCEPT !.cids = ins.self, !.next_cid_seq = @ + 1],
                       seq, advertise),
                   Some(seq))

\* SourceConnectionIdentifiers::retire_cid. The entry is taken out of the
\* queue before it is compared with pkt_cid.
scid_retire_cid(self, seq, pkt_cid) ==
    LET rem == CidQueueRemove(self.cids, seq)
        removed == [self EXCEPT !.cids = rem.self]
        e == Unwrap(rem.value)
        notified == [removed EXCEPT !.retired_cids = Append(@, e.cid)]
        lowest == lowest_usable_cid_seq(notified)
    IN  IF seq >= self.next_cid_seq THEN CidErr(self, InvalidState)
        ELSE IF ~rem.ok THEN CidErr(self, rem.err)
        ELSE IF rem.value = None THEN CidOk(self, None)
        ELSE IF e.cid = pkt_cid THEN CidErr(removed, InvalidState)
        ELSE IF ~lowest.ok THEN CidErr(notified, lowest.err)
        ELSE CidOk([notified EXCEPT !.retire_prior_to = lowest.value], e.path_id)

\* ------------------------------------------ source connection IDs: actions
\* the connection ID the generator draws next, or the oldest registered one
ScidDrawn(self) == {<<self.next_cid_seq + 1>>, self.cids.inner[1].cid}
\* the connection ID a packet was addressed to: the oldest or the newest one
PktCids(self) == {self.cids.inner[1].cid, self.cids.inner[Len(self.cids.inner)].cid}
ResetTokens == {None, Some(0)}

ScidIdle == [op |-> "new", cid |-> << >>, seq |-> 0, reset_token |-> None,
             advertise |-> FALSE, retire_if_needed |-> FALSE,
             result |-> [ok |-> TRUE, value |-> None, err |-> ""],
             before |-> << >>]

ScidResult(r) == [ok |-> r.ok, value |-> r.value, err |-> r.err]

InitScid ==
    /\ BaseIdle
    /\ sendbuf = << >>
    /\ reader = << >>
    /\ recv = << >>
    /\ dcids = << >>
    /\ zspace = << >>
    /\ lastcall = ScidIdle
    /\ \E initial_scid \in {<< >>, <<1>>}, reset_token \in {None, Some(0)} :
           scids = SourceNew(initial_scid, 0, reset_token)

ScidSetConnIdLimit(v) ==
    /\ scids' = set_conn_id_limit(scids, v)
    /\ lastcall' = [ScidIdle EXCEPT !.op = "set_conn_id_limit", !.seq = v,
                                    !.before = scids]
    /\ UNCHANGED <<basevars, sendbuf, reader, recv, dcids, zspace>>

ScidNewCid(cid, reset_token, advertise, retire_if_needed) ==
    /\ scids.next_cid_seq <= MaxScidSeq
    /\ LET r == new_cid(scids, cid, reset_token, advertise, None, retire_if_needed)
       IN  /\ scids' = r.self
           /\ lastcall' = [ScidIdle EXCEPT !.op = "new_cid", !.cid = cid,
                                           !.reset_token = reset_token,
                                           !.advertise = advertise,
                                           !.retire_if_needed = retire_if_needed,
                                           !.result = ScidResult(r),
                                           !.before = scids]
    /\ UNCHANGED <<basevars, sendbuf, reader, recv, dcids, zspace>>

ScidRetireCid(seq, pkt_cid) ==
    /\ LET r == scid_retire_cid(scids, seq, pkt_cid)
       IN  /\ scids' = r.self
           /\ lastcall' = [ScidIdle EXCEPT !.op = "retire_cid", !.cid = pkt_cid,
                                           !.seq = seq,
                                           !.result = ScidResult(r),
                                           !.before = scids]
    /\ UNCHANGED <<basevars, sendbuf, reader, recv, dcids, zspace>>

NextScid ==
    \/ \E v \in 1..MaxConnIdLimit : ScidSetConnIdLimit(v)
    \/ \E cid \in ScidDrawn(scids), reset_token \in ResetTokens,
          retire_if_needed \in BOOLEAN :
           ScidNewCid(cid, reset_token, TRUE, retire_if_needed)
    \/ \E seq \in 0..(MaxScidSeq + 1), pkt_cid \in PktCids(scids) :
           ScidRetireCid(seq, pkt_cid)

SpecScid == InitScid /\ [][NextScid]_vars

\* ------------------------------------------- source connection IDs: claims
\* a new_cid call on a registry that uses connection IDs, with a reset token
\* and a connection ID that is not registered
NewCidCase ==
    /\ lastcall.op = "new_cid"
    /\ ~lastcall.before.zero_length_cid
    /\ lastcall.reset_token # None
    /\ FindCid(lastcall.before, lastcall.cid) = None

\* the call returned the next sequence number and appended the entry; the
\* entries that were in the queue are still there, in order
NewCidAdded ==
    LET b == lastcall.before
    IN  /\ lastcall.result.ok
        /\ lastcall.result.value = Some(b.next_cid_seq)
        /\ scids.next_cid_seq = b.next_cid_seq + 1
        /\ scids.cids.inner =
               Append(b.cids.inner,
                      ConnectionIdEntry(lastcall.cid, b.next_cid_seq,
                                        lastcall.reset_token, None))

NewCidRefused(err) ==
    /\ ~lastcall.result.ok
    /\ lastcall.result.err = err
    /\ scids.cids = lastcall.before.cids
    /\ scids.next_cid_seq = lastcall.before.next_cid_seq

\* C31 (as stated): new_cid for a connection ID that is not registered returns
\* next_cid_seq and increments it; at the limit it fails with IdLimit when
\* retire_if_needed is false, and otherwise adds the connection ID, sets
\* retire_prior_to to the lowest usable sequence number plus one and keeps
\* the older entries.
C31_NewCidAtLimit ==
    NewCidCase =>
        LET b == lastcall.before
            over == Len(b.cids.inner) >= b.source_conn_id_limit
            lowest == lowest_usable_cid_seq(b)
        IN  /\ ~over => NewCidAdded /\ scids.retire_prior_to = b.retire_prior_to
            /\ (over /\ ~lastcall.retire_if_needed) => NewCidRefused(IdLimit)
            /\ (over /\ lastcall.retire_if_needed) =>
                   /\ NewCidAdded
                   /\ lowest.ok
                   /\ scids.retire_prior_to = lowest.value + 1

\* C31 (amended): as above, but at the limit with retire_if_needed the
\* connection ID is added only while the queue holds fewer entries than its
\* capacity and some entry is at or above retire_prior_to; with no such entry
\* the call fails with InvalidState, and at capacity it fails with IdLimit and
\* adds nothing.
C31_NewCidBelowCapacity ==
    NewCidCase =>
        LET b == lastcall.before
            over == Len(b.cids.inner) >= b.source_conn_id_limit
            full == Len(b.cids.inner) = b.cids.capacity
            lowest == lowest_usable_cid_seq(b)
        IN  /\ ~over => NewCidAdded /\ scids.retire_prior_to = b.retire_prior_to
            /\ (over /\ ~lastcall.retire_if_needed) => NewCidRefused(IdLimit)
            /\ (over /\ lastcall.retire_if_needed /\ ~lowest.ok) =>
                   NewCidRefused(InvalidState)
            /\ (over /\ lastcall.retire_if_needed /\ lowest.ok /\ full) =>
                   NewCidRefused(IdLimit)
            /\ (over /\ lastcall.retire_if_needed /\ lowest.ok /\ ~full) =>
                   /\ NewCidAdded
                   /\ scids.retire_prior_to = lowest.value + 1

\* limit 3 with the sequence numbers 0, 1 and 2: the new connection ID got
\* sequence number 3, four entries are stored, the oldest is still 0
C31_Witness ==
    /\ NewCidCase
    /\ lastcall.retire_if_needed
    /\ lastcall.before.source_conn_id_limit = 3
    /\ [i \in 1..Len(lastcall.before.cids.inner) |-> lastcall.before.cids.inner[i].seq]
           = <<0, 1, 2>>
    /\ lastcall.result.value = Some(3)
    /\ Len(scids.cids.inner) = 4
    /\ scids.retire_prior_to = 1
    /\ scids.cids.inner[1].seq = 0

\* C37: a retire_cid call that returns an error leaves the registry as it
\* was.
C37_RetireErrorKeeps ==
    (lastcall.op = "retire_cid" /\ ~lastcall.result.ok) => scids = lastcall.before

\* C38: a new_cid call that returns an error leaves the registry as it was,
\* and a new_cid call for a registered connection ID with the same reset
\* token returns its sequence number and leaves retire_prior_to as it was.
C38_NewCidErrorKeeps ==
    lastcall.op = "new_cid" =>
        LET found == FindCid(lastcall.before, lastcall.cid)
        IN  /\ ~lastcall.result.ok => scids = lastcall.before
            /\ (lastcall.result.ok /\ IsSome(found)) =>
                   /\ lastcall.result.value = Some(Unwrap(found).seq)
                   /\ scids.retire_prior_to = lastcall.before.retire_prior_to

\* ------------------------------------- destination connection IDs: bounds
\* the sequence numbers the peer uses, the length of the queue of sequence
\* numbers to retire, and the destination connection ID limit
MaxDcidSeq == 2
MaxRetireQueue == 3
MaxDcidLimit == 3

\* --------------------------------- cid_registry.rs: DestConnectionIdentifiers
DestNew(destination_conn_id_limit, initial_path_id) ==
    [cids |-> CidQueueNew(destination_conn_id_limit,
                  ConnectionIdEntry(<< >>, 0, None, Some(initial_path_id))),
     retire_dcid_seqs |-> << >>,
     largest_peer_retire_prior_to |-> 0,
     largest_destination_seq |-> 0,
     zero_length_dcid |-> FALSE]

\* the (seq, path_id) pairs of the entries that are linked to a path
RetiredPathIds(entries) ==
    LET linked(x) == IsSome(x.path_id)
        on_path == SelectSeq(entries, linked)
    IN  [i \in 1..Len(on_path) |-> <<on_path[i].seq, Unwrap(on_path[i].path_id)>>]

EntrySeqs(entries) == [i \in 1..Len(entries) |-> entries[i].seq]

\* DestConnectionIdentifiers::new_dcid. A sequence number below
\* largest_peer_retire_prior_to is queued for retirement and the call
\* returns, unless the queue already holds it: then the call goes on.
new_dcid(self, cid, seq, reset_token, retire_prior_to) ==
    LET at == {i \in 1..Len(self.cids.inner) :
                  self.cids.inner[i].cid = cid \/ self.cids.inner[i].seq = seq}
        e == self.cids.inner[CHOOSE i \in at : \A j \in at : i <= j]
        queued == \E i \in 1..Len(self.retire_dcid_seqs) : self.retire_dcid_seqs[i] = seq
        seen == [self EXCEPT !.largest_destination_seq = Max2(@, seq)]
        new_entry == ConnectionIdEntry(cid, seq, Some(reset_token), None)
        swap == remove_lower_than_and_insert(seen.cids, retire_prior_to, new_entry)
        swapped == [seen EXCEPT !.cids = swap.self,
                                !.retire_dcid_seqs = @ \o EntrySeqs(swap.value)]
        ins == CidQueueInsert(seen.cids, new_entry)
    IN  IF self.zero_length_dcid THEN CidErr(self, InvalidState)
        ELSE IF at # {}
        THEN IF e.cid # cid \/ e.seq # seq \/ e.reset_token # Some(reset_token)
             THEN CidErr(self, InvalidFrame)
             ELSE CidOk(self, << >>)
        ELSE IF retire_prior_to > seq THEN CidErr(self, InvalidFrame)
        ELSE IF seq < self.largest_peer_retire_prior_to /\ ~queued
        THEN CidOk([self EXCEPT !.retire_dcid_seqs = Append(@, seq)], << >>)
        ELSE IF retire_prior_to > self.largest_peer_retire_prior_to
        THEN IF ~swap.ok
             THEN CidErr(swapped, swap.err)
             ELSE CidOk([swapped EXCEPT !.largest_peer_retire_prior_to = retire_prior_to],
                        RetiredPathIds(swap.value))
        ELSE IF ~ins.ok THEN CidErr(seen, ins.err)
        ELSE CidOk([seen EXCEPT !.cids = ins.self], << >>)

\* DestConnectionIdentifiers::retire_cid
dcid_retire_cid(self, seq) ==
    LET rem == CidQueueRemove(self.cids, seq)
    IN  IF self.zero_length_dcid THEN CidErr(self, InvalidState)
        ELSE IF ~rem.ok THEN CidErr(self, rem.err)
        ELSE IF rem.value = None THEN CidErr(self, InvalidState)
        ELSE CidOk([self EXCEPT !.cids = rem.self,
                                !.retire_dcid_seqs = Append(@, seq)],
                   Unwrap(rem.value).path_id)

mark_retire_cid_seq(self, dcid_seq, retire) ==
    LET q == self.retire_dcid_seqs
        at == {i \in 1..Len(q) : q[i] = dcid_seq}
    IN  IF retire
        THEN [self EXCEPT !.retire_dcid_seqs = Append(@, dcid_seq)]
        ELSE IF at # {}
        THEN [self EXCEPT !.retire_dcid_seqs =
                              RemoveAt(@, CHOOSE i \in at : \A j \in at : i <= j)]
        ELSE self

\* ------------------------------------ destination connection IDs: actions
\* the connection ID the peer issued with the sequence number seq
PeerCid(seq) == <<seq + 1>>

DcidIdle == [op |-> "new", seq |-> 0, retire_prior_to |-> 0, ok |-> TRUE, err |-> "",
             was |-> 0, queued |-> FALSE]

DcidCall(op, seq, retire_prior_to, r) ==
    [op |-> op, seq |-> seq, retire_prior_to |-> retire_prior_to, ok |-> r.ok,
     err |-> r.err, was |-> dcids.largest_peer_retire_prior_to,
     queued |-> \E i \in 1..Len(dcids.retire_dcid_seqs) : dcids.retire_dcid_seqs[i] = seq]

InitDcid ==
    /\ BaseIdle
    /\ sendbuf = << >>
    /\ reader = << >>
    /\ recv = << >>
    /\ scids = << >>
    /\ zspace = << >>
    /\ lastcall = DcidIdle
    /\ \E destination_conn_id_limit \in 2..MaxDcidLimit :
           dcids = DestNew(destination_conn_id_limit, 0)

\* a NEW_CONNECTION_ID frame of the peer, first sent or retransmitted
DcidNewDcid(seq, reset_token, retire_prior_to) ==
    /\ Len(dcids.retire_dcid_seqs) < MaxRetireQueue
    /\ LET r == new_dcid(dcids, PeerCid(seq), seq, reset_token, retire_prior_to)
       IN  /\ dcids' = r.self
           /\ lastcall' = DcidCall("new_dcid", seq, retire_prior_to, r)
    /\ UNCHANGED <<basevars, sendbuf, reader, recv, scids, zspace>>

DcidRetireCid(seq) ==
    /\ Len(dcids.retire_dcid_seqs) < MaxRetireQueue
    /\ LET r == dcid_retire_cid(dcids, seq)
       IN  /\ dcids' = r.self
           /\ lastcall' = DcidCall("retire_cid", seq, 0, r)
    /\ UNCHANGED <<basevars, sendbuf, reader, recv, scids, zspace>>

\* the RETIRE_CONNECTION_ID frame for seq is to be sent, or was sent
DcidMarkRetireCidSeq(seq, retire) ==
    /\ Len(dcids.retire_dcid_seqs) < MaxRetireQueue
    /\ dcids' = mark_retire_cid_seq(dcids, seq, retire)
    /\ lastcall' = DcidCall("mark_retire_cid_seq", seq, 0, CidOk(dcids, None))
    /\ UNCHANGED <<basevars, sendbuf, reader, recv, scids, zspace>>

NextDcid ==
    \/ \E seq \in 1..MaxDcidSeq, reset_token \in {0, 1}, retire_prior_to \in 0..MaxDcidSeq :
           DcidNewDcid(seq, reset_token, retire_prior_to)
    \/ \E seq \in 0..MaxDcidSeq : DcidRetireCid(seq)
    \/ \E seq \in 0..MaxDcidSeq, retire \in BOOLEAN : DcidMarkRetireCidSeq(seq, retire)

SpecDcid == InitDcid /\ [][NextDcid]_vars

\* ------------------------------------- destination connection IDs: claims
\* C39: no active destination connection ID has a sequence number below
\* largest_peer_retire_prior_to, and largest_peer_retire_prior_to never
\* decreases.
C39_NoneBelowRetirePriorTo ==
    /\ \A i \in 1..Len(dcids.cids.inner) :
           dcids.cids.inner[i].seq >= dcids.largest_peer_retire_prior_to
    /\ dcids.largest_peer_retire_prior_to >= lastcall.was

\* --------------------------------------------------- 0-RTT upgrade: bounds
\* qrecovery/src/space/zero_rtt_data.rs. The stream-control frames that
\* Streams sends on the channel.
MaxStreamFrames == 3

\* ------------------------------------------- space/zero_rtt_data.rs: upgrade
\* a frame of the 0-RTT frame set
ZeroRttFrame(kind, value) == [set |-> "ZeroRttFrame", kind |-> kind, value |-> value]
\* ZeroRttFrame::Stream(f), f a StreamInfoFrame
ZeroRttStream(f) == ZeroRttFrame(f.kind, f.value)
\* OneRttFrame::Stream(f); OneRttFrame is InfoFrame
OneRttStream(f) == InfoFrame(f.kind, f.value)

\* From<ZeroRttFrame> for InfoFrame
InfoFrameFrom(value) ==
    IF value.kind = "Ping" THEN InfoFrame("Ping", 0) ELSE InfoFrame(value.kind, value.value)

\* ZeroRttDataSpace::new, with the frames written to the space since: the
\* channel is empty, the close signal is not sent, the forwarding task runs
ZeroRttNew(written) ==
    [written |-> written,
     frames |-> written,
     channel |-> << >>,
     close_tx |-> "unsent",
     join_handler |-> "running",
     pc |-> "zero_rtt",
     one_rtt_frames |-> << >>,
     nsent |-> 0,
     forwarded |-> 0,
     forwarded_one_rtt |-> 0,
     drained |-> 0]

\* the branches of select! that are ready
ForwardReady(self) ==
    (IF self.close_tx = "sent" THEN {"close_rx"} ELSE {})
        \cup (IF self.channel # << >> THEN {"recv"} ELSE {})

\* one turn of the loop of the forwarding task, select! taking branch
forward(self, branch) ==
    IF branch = "close_rx"
    THEN [self EXCEPT !.join_handler = "finished"]
    ELSE [self EXCEPT !.channel = Tail(@),
                      !.frames = Append(@, ZeroRttStream(Head(self.channel))),
                      !.forwarded = @ + 1]

\* upgrade up to the await: the new queue is made and the close signal sent
upgrade_close(self) ==
    [self EXCEPT !.one_rtt_frames = << >>, !.close_tx = "sent", !.pc = "close_sent"]

\* join_handler.await: the task has returned the receiver
upgrade_join(self) == [self EXCEPT !.pc = "joined"]

\* the frames of the 0-RTT queue taken out and dropped
upgrade_extend_drops(self) ==
    [self EXCEPT !.frames = << >>,
                 !.drained = Len(self.frames),
                 !.pc = "extended"]

\* the frames of the 0-RTT queue are drained into the new queue
upgrade_extend(self) ==
    [self EXCEPT !.one_rtt_frames =
                     @ \o [i \in 1..Len(self.frames) |-> InfoFrameFrom(self.frames[i])],
                 !.frames = << >>,
                 !.drained = Len(self.frames),
                 !.pc = "extended"]

\* the second forwarding task is spawned and the 1-RTT space built
upgrade_spawn(self) == [self EXCEPT !.pc = "one_rtt"]

\* one turn of the loop of the second forwarding task
forward_one_rtt(self) ==
    [self EXCEPT !.channel = Tail(@),
                 !.one_rtt_frames = Append(@, OneRttStream(Head(self.channel))),
                 !.forwarded_one_rtt = @ + 1]

\* ------------------------------------------------- 0-RTT upgrade: actions
\* the k-th stream-control frame that Streams sends
StreamInfo(k) == InfoFrame("MaxStreamData", k)

InitZr ==
    /\ BaseIdle
    /\ sendbuf = << >>
    /\ reader = << >>
    /\ recv = << >>
    /\ lastcall = << >>
    /\ scids = << >>
    /\ dcids = << >>
    /\ \E written \in {<< >>, <<ZeroRttFrame("Ping", 1)>>, <<ZeroRttFrame("MaxData", 1)>>} :
           zspace = ZeroRttNew(written)

ZrFrame == UNCHANGED <<basevars, sendbuf, reader, recv, lastcall, scids, dcids>>

\* Streams sends a frame on the channel, at any time
ZrSend ==
    /\ zspace.nsent < MaxStreamFrames
    /\ zspace' = [zspace EXCEPT !.nsent = @ + 1,
                                !.channel = Append(@, StreamInfo(zspace.nsent + 1))]
    /\ ZrFrame

ZrForward ==
    /\ zspace.join_handler = "running"
    /\ \E branch \in ForwardReady(zspace) : zspace' = forward(zspace, branch)
    /\ ZrFrame

ZrUpgradeClose ==
    /\ zspace.pc = "zero_rtt"
    /\ zspace' = upgrade_close(zspace)
    /\ ZrFrame

ZrUpgradeJoin ==
    /\ zspace.pc = "close_sent"
    /\ zspace.join_handler = "finished"
    /\ zspace' = upgrade_join(zspace)
    /\ ZrFrame

ZrUpgradeExtend ==
    /\ zspace.pc = "joined"
    /\ zspace' = upgrade_extend(zspace)
    /\ ZrFrame

ZrUpgradeSpawn ==
    /\ zspace.pc = "extended"
    /\ zspace' = upgrade_spawn(zspace)
    /\ ZrFrame

ZrForwardOneRtt ==
    /\ zspace.pc = "one_rtt"
    /\ zspace.channel # << >>
    /\ zspace' = forward_one_rtt(zspace)
    /\ ZrFrame

NextZr ==
    \/ ZrSend
    \/ ZrForward
    \/ ZrUpgradeClose
    \/ ZrUpgradeJoin
    \/ ZrUpgradeExtend
    \/ ZrUpgradeSpawn
    \/ ZrForwardOneRtt

SpecZr == InitZr /\ [][NextZr]_vars

\* -------------------------------------------------- 0-RTT upgrade: claims
\* the frames written to the 0-RTT space and the frames sent on the
\* channel, in order, as 1-RTT frames
AllFrames(self) ==
    [i \in 1..Len(self.written) |-> InfoFrameFrom(self.written[i])]
        \o [k \in 1..self.nsent |-> StreamInfo(k)]

\* C40: across upgrade no stream-control frame is lost, duplicated or
\* reordered: until the 0-RTT queue is drained it and the channel hold every
\* frame once and in order; afterwards the 1-RTT queue and the channel do, the
\* frames that were in the 0-RTT queue first.
C40_FramesKept ==
    LET queued == [i \in 1..Len(zspace.frames) |-> InfoFrameFrom(zspace.frames[i])]
        waiting == [i \in 1..Len(zspace.channel) |-> OneRttStream(zspace.channel[i])]
    IN  IF zspace.pc \in {"zero_rtt", "close_sent", "joined"}
        THEN /\ queued \o waiting = AllFrames(zspace)
             /\ zspace.one_rtt_frames = << >>
        ELSE /\ zspace.one_rtt_frames \o waiting = AllFrames(zspace)
             /\ zspace.frames = << >>
             /\ zspace.drained = Len(zspace.written) + zspace.forwarded
             /\ zspace.drained + zspace.forwarded_one_rtt = Len(zspace.one_rtt_frames)

\* the upgrade is over: a frame was forwarded before it, one was left in the
\* channel by the close signal, and every frame is in the 1-RTT queue
C40_Witness ==
    /\ zspace.pc = "one_rtt"
    /\ zspace.written # << >>
    /\ zspace.forwarded >= 1
    /\ zspace.forwarded_one_rtt >= 1
    /\ zspace.nsent = MaxStreamFrames
    /\ zspace.channel = << >>
    /\ Len(zspace.one_rtt_frames) = MaxStreamFrames + 1

====
